------------------------------ MODULE RiskGate ------------------------------
(***************************************************************************)
(* The last gate before a MARKET order of one user reaches Binance:        *)
(*   - trading/order_validator.py             Binance's trading rules;     *)
(*   - trading/risk_engine.py                 the user's six limits;       *)
(*   - trading/user_risk_settings_service.py  where the limits come from;  *)
(*   - trading/positions_service.py, portfolio_service.py                  *)
(*                                            what the engine is told of   *)
(*                                            the account.                 *)
(*                                                                         *)
(* The deployed event loop runs an order's handler from start to end, so   *)
(* no other handler moves the account meanwhile, and the handler is one    *)
(* step.  The loop does not hold the market still: each of the reads goes  *)
(* to Binance on its own, finds the prices of its own moment and may fail  *)
(* on its own, and the order fills at a price of a later moment.           *)
(*                                                                         *)
(* Average costs are quotients, rounded down to integers here: the prices  *)
(* of a run are multiples of a number that most of its quotients divide.   *)
(***************************************************************************)
EXTENDS Integers, Sequences, FiniteSets, Functions

CONSTANTS
    Symbols,       \* instruments, against the quote asset
    Prices,        \* market prices
    Quantities,    \* quantities ordered
    Capital,       \* the quote balance at first
    LimitChoices,  \* limits a user may save
    MinQty, MaxQty, StepSize, MinNotional,   \* the filters of every symbol
    Window,        \* trades of a symbol that Binance returns
    MayFail,       \* whether reads of single prices and histories may fail
    DriftNum,      \* while one order is handled, the prices of a symbol are
    DriftDen,      \* at most DriftNum / DriftDen of each other
    MaxTrades,     \* bound: trades in all
    MaxDay         \* bound: the last day

VARIABLES
    price,     \* market price of each symbol, now
    quote,     \* quote balance at Binance
    held,      \* balance of each symbol's asset
    trades,    \* the account's trades of each symbol, oldest first
    today,     \* the current day
    limits     \* the user's row of limits

vars == <<price, quote, held, trades, today, limits>>

-----------------------------------------------------------------------------
(* Types *)

None == -1
OrNone(S) == S \cup {None}

Limits == [notional : OrNone(Nat), symbolPct : OrNone(0..100),
           totalPct : OrNone(0..100), lossPct : OrNone(0..100),
           positions : OrNone(Nat), symbols : SUBSET Symbols]

\* What a user without a row has.
Unset == [notional |-> None, symbolPct |-> None, totalPct |-> None,
          lossPct |-> None, positions |-> None, symbols |-> {}]

Trade == [buyer : BOOLEAN, qty : Nat, price : Prices, day : Nat]

ASSUME GateAssumption ==
    /\ IsFiniteSet(Symbols)
    /\ Prices \subseteq Nat \ {0} /\ Quantities \subseteq Nat
    /\ {Capital, MinQty, MaxQty, MinNotional, Window, MaxTrades, MaxDay} \subseteq Nat
    /\ {StepSize, DriftNum, DriftDen} \subseteq Nat \ {0}
    /\ DriftDen <= DriftNum
    /\ LimitChoices \subseteq Limits
    /\ MayFail \in BOOLEAN

TypeOK ==
    /\ price \in [Symbols -> Prices]
    /\ quote \in Nat
    /\ held \in [Symbols -> Nat]
    /\ trades \in [Symbols -> Seq(Trade)]
    /\ today \in 0..MaxDay
    /\ limits \in Limits

Init ==
    /\ price \in [Symbols -> Prices]
    /\ quote = Capital
    /\ held = [s \in Symbols |-> 0]
    /\ trades = [s \in Symbols |-> <<>>]
    /\ today = 0
    /\ limits = Unset

-----------------------------------------------------------------------------
(* What is read of the account *)

Positions == {s \in Symbols : held[s] > 0}

\* What a read that prices the symbols of S finds; a symbol whose price cannot
\* be read is left out.
PricesOf(S) ==
    IF MayFail THEN UNION {[T -> Prices] : T \in SUBSET S} ELSE [S -> Prices]

\* One after the other: the position of s itself, all positions, the value of
\* the account, the histories of trades.
Reads(s) ==
    [own : PricesOf({s} \cap Positions), positions : PricesOf(Positions),
     valued : PricesOf(Positions),
     histories : IF MayFail THEN SUBSET Symbols ELSE {Symbols}]

\* What is held of a symbol is worth at prices that were read; without a price
\* it counts as nothing.
ValueAt(prices, s) == IF s \in DOMAIN prices THEN held[s] * prices[s] ELSE 0
ExposureAt(prices) ==
    SumFunctionOnSet([s \in Symbols |-> ValueAt(prices, s)], Symbols)

\* get_total_value_quote
TotalAt(prices) == quote + ExposureAt(prices)

\* The most recent trades of a symbol.
Recent(history) ==
    SubSeq(history,
           1 + IF Len(history) > Window THEN Len(history) - Window ELSE 0,
           Len(history))
History(s) == Recent(trades[s])

-----------------------------------------------------------------------------
(* _cost_basis_walk *)

\* cost: what the quantity held did cost; gain: realized, in all and on a day.
Flat == [held |-> 0, cost |-> 0, gain |-> 0, today |-> 0]

Bought(w, t) ==
    [w EXCEPT !.held = @ + t.qty, !.cost = @ + t.qty * t.price]

MutantSold(w, t, day) ==
    LET basis == (w.cost * t.qty) \div w.held
        delta == t.qty * t.price - basis
    IN  [held |-> w.held - t.qty, cost |-> w.cost - basis, gain |-> w.gain + delta,
         today |-> w.today + IF t.day = day THEN delta ELSE 0]

Least(a, b) == IF a < b THEN a ELSE b

MutantSoldAtPrice(w, t, day) ==
    LET qty   == Least(t.qty, w.held)
        basis == (w.cost * qty) \div w.held
        delta == qty * t.price - basis
    IN  [held |-> w.held - qty, cost |-> w.cost - qty * t.price,
         gain |-> w.gain + delta,
         today |-> w.today + IF t.day = day THEN delta ELSE 0]

\* A sale beyond the quantity held is not tracked.
Sold(w, t, day) ==
    LET qty   == Least(t.qty, w.held)
        basis == (w.cost * qty) \div w.held
        delta == qty * t.price - basis
    IN  [held |-> w.held - qty, cost |-> w.cost - basis, gain |-> w.gain + delta,
         today |-> w.today + IF t.day = day THEN delta ELSE 0]

Walked(w, t, day) ==
    IF t.buyer THEN Bought(w, t)
    ELSE IF w.held # 0 THEN Sold(w, t, day)
    ELSE w

\* The walk over a history, as it is after each trade.
Walk(history, day) ==
    LET w[i \in 0..Len(history)] ==
            IF i = 0 THEN Flat ELSE Walked(w[i - 1], history[i], day)
    IN  w

\* get_realized_loss_today_quote: a position closed earlier today is not seen.
GainToday(s) == Walk(History(s), today)[Len(History(s))].today
LossToday(S) ==
    -Least(0, SumFunctionOnSet([s \in Symbols |-> GainToday(s)], S \cap Positions))

-----------------------------------------------------------------------------
(* The validator and the engine *)

Valid(s, n) ==
    /\ n > 0 /\ n \in MinQty..MaxQty
    /\ (n - MinQty) % StepSize = 0
    /\ n * price[s] >= MinNotional

\* Shares are compared in hundredths of the total, of which there is none in
\* an account without value.
Within(amount, pct, total) == pct # None /\ total > 0 /\ amount * 100 <= pct * total

SymbolAllowed(s) == s \in limits.symbols

LossAllowed(loss, total) ==
    limits.lossPct # None /\ total > 0 /\ loss * 100 < limits.lossPct * total

NotionalAllowed(amount) == limits.notional # None /\ amount <= limits.notional

MutantExposureAllowed(s, amount, seen, total) ==
    /\ Within(ValueAt(seen.own, s), limits.symbolPct, total)
    /\ Within(ExposureAt(seen.positions), limits.totalPct, total)

ExposureAllowed(s, amount, seen, total) ==
    /\ Within(ValueAt(seen.own, s) + amount, limits.symbolPct, total)
    /\ Within(ExposureAt(seen.positions) + amount, limits.totalPct, total)

PositionAllowed(s) ==
    /\ limits.positions # None
    /\ held[s] = 0 => Cardinality(Positions) < limits.positions

\* The loss and the notional are looked at for both sides: the daily limit
\* stops sales too.  The amount is at the price the validator has read, before
\* the account is read.
Approved(side, s, n, seen) ==
    LET amount == n * price[s]
        total  == TotalAt(seen.valued)
    IN  /\ Valid(s, n)
        /\ SymbolAllowed(s)
        /\ LossAllowed(LossToday(seen.histories), total)
        /\ NotionalAllowed(amount)
        /\ side = "BUY" => /\ ExposureAllowed(s, amount, seen, total)
                           /\ PositionAllowed(s)

-----------------------------------------------------------------------------
(* Orders that execute; one that is refused leaves the account as it is *)

\* The price at which the order fills is nobody's choice, but all prices met on
\* the way are near each other.
Near(p, q) ==
    \A s \in DOMAIN p \cap DOMAIN q :
        p[s] * DriftDen <= q[s] * DriftNum /\ q[s] * DriftDen <= p[s] * DriftNum

\* The order is sent after all reads and fills at the price there is then.
Executed(side, s, n, seen) ==
    /\ price' \in [Symbols -> Prices]
    /\ \A p, q \in {price, seen.own, seen.positions, seen.valued, price'} : Near(p, q)
    /\ trades' = [trades EXCEPT ![s] =
                      Append(@, [buyer |-> side = "BUY", qty |-> n,
                                 price |-> price'[s], day |-> today])]
    /\ UNCHANGED <<today, limits>>

Buy(s, n, seen) ==
    /\ Approved("BUY", s, n, seen)
    /\ Executed("BUY", s, n, seen)
    /\ n * price'[s] <= quote
    /\ quote' = quote - n * price'[s]
    /\ held' = [held EXCEPT ![s] = @ + n]

Sell(s, n, seen) ==
    /\ Approved("SELL", s, n, seen)
    /\ n <= held[s]
    /\ Executed("SELL", s, n, seen)
    /\ quote' = quote + n * price'[s]
    /\ held' = [held EXCEPT ![s] = @ - n]

\* Closing is a sale of all that is held.
ClosePosition(s, seen) == held[s] > 0 /\ Sell(s, held[s], seen)

-----------------------------------------------------------------------------
(* The user and the world *)

SaveLimits(l) ==
    /\ limits # l
    /\ limits' = l
    /\ UNCHANGED <<price, quote, held, trades, today>>

MovePrice(s, p) ==
    /\ price[s] # p
    /\ price' = [price EXCEPT ![s] = p]
    /\ UNCHANGED <<quote, held, trades, today, limits>>

NextDay ==
    /\ today < MaxDay
    /\ today' = today + 1
    /\ UNCHANGED <<price, quote, held, trades, limits>>

Traded == SumFunctionOnSet([s \in Symbols |-> Len(trades[s])], Symbols)

Order ==
  /\ Traded < MaxTrades
  /\ \E s \in Symbols : \E seen \in Reads(s) :
        \/ \E n \in Quantities : Buy(s, n, seen) \/ Sell(s, n, seen)
        \/ ClosePosition(s, seen)

Next ==
    \/ Order
    \/ \E l \in LimitChoices : SaveLimits(l)
    \/ \E s \in Symbols, p \in Prices : MovePrice(s, p)
    \/ NextDay

Spec == Init /\ [][Next]_vars

-----------------------------------------------------------------------------
(* Properties *)

Amount(t) == t.qty * t.price
Newest(s) == trades[s][Len(trades[s])]

\* The share of the total that was allowed, and twice the drift: the amount may
\* have been read too low and the total too high.
NearlyWithin(amount, pct, total) ==
    /\ pct # None /\ total > 0
    /\ amount * 100 * DriftDen * DriftDen <= pct * total * DriftNum * DriftNum

\* At the prices an order filled at, of which it had read others:
\*   - it was not larger than the limit, and the day's losses not above theirs,
\*     by more than the drift;
\*   - if it was a purchase, the shares of its symbol and of all symbols are
\*     not larger than their limits by more than twice the drift, and a new
\*     position is one of those allowed.
GateHolds ==
    [][ \A s \in Symbols :
          trades'[s] # trades[s] =>
              /\ limits.notional # None
              /\ Amount(Newest(s)') * DriftDen <= limits.notional * DriftNum
              /\ limits.lossPct # None
              /\ LossToday(Symbols) * 100 * DriftDen
                     < limits.lossPct * TotalAt(price)' * DriftNum
              /\ held'[s] > held[s] =>
                     /\ NearlyWithin(ValueAt(price, s)', limits.symbolPct, TotalAt(price)')
                     /\ NearlyWithin(ExposureAt(price)', limits.totalPct, TotalAt(price)')
                     /\ limits.positions # None
                     /\ held[s] = 0 => Cardinality(Positions') <= limits.positions ]_vars

\* What was received for a symbol, less what was paid, after each trade.
Received(sum, t) == IF t.buyer THEN sum - Amount(t) ELSE sum + Amount(t)
Cash(history) ==
    LET sum[i \in 0..Len(history)] ==
            IF i = 0 THEN 0 ELSE Received(sum[i - 1], history[i])
    IN  sum

\* The first k trades are those of earlier days, the others are today's.
SplitsToday(history, k) ==
    \A i \in 1..Len(history) : history[i].day < today <=> i <= k

\* With a symbol's whole history, the walk finds what the account holds, and
\* its gains are the money the symbol brought in, in all and today: what is
\* still held stands for its cost.
WalkExact ==
    \A s \in Symbols :
        LET all  == trades[s]
            last == Len(all)
            w    == Walk(all, today)
        IN  /\ w[last].held = held[s]
            /\ w[last].gain = Cash(all)[last] + w[last].cost
            /\ \E k \in 0..last :
                  /\ SplitsToday(all, k)
                  /\ w[last].today = (Cash(all)[last] + w[last].cost)
                                      - (Cash(all)[k] + w[k].cost)

\* The prices of the purchases in a history lie between lo and hi.
PaidWithin(history, lo, hi) ==
    \A i \in 1..Len(history) :
        history[i].buyer => history[i].price >= lo /\ history[i].price <= hi

\* Wherever the returned history starts, the average entry price is one
\* between the lowest and the highest price paid in it (and the account it is
\* the history of is well typed).
AverageWithinPaid ==
    /\ TypeOK
    /\ \A s \in Symbols :
        LET w == Walk(History(s), today)[Len(History(s))] IN
        /\ w.held >= 0
        /\ w.held = 0 => w.cost = 0
        /\ \A lo, hi \in Prices :
              PaidWithin(History(s), lo, hi) =>
                  w.cost >= w.held * lo /\ w.cost <= w.held * hi

=============================================================================
