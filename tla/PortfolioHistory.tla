-------------------------- MODULE PortfolioHistory --------------------------
(***************************************************************************)
(* The account-wide equity curve: the scheduler thread that values the      *)
(* Binance account and files one snapshot per bucket of Interval minutes,   *)
(* and GET /portfolio/history, which cuts a window out of the rows, thins   *)
(* it out and derives the return and the maximum drawdown.                  *)
(*                                                                         *)
(* A tick reads the balances, then the price of every asset held, each by a *)
(* call that can fail on its own, then the clock; meanwhile the account     *)
(* trades and prices move.                                                 *)
(***************************************************************************)
EXTENDS Integers, Sequences, SequencesExt, FiniteSets, FiniteSetsExt

CONSTANTS
    Assets,       \* what the account may hold besides the quote asset
    Interval,     \* interval_minutes
    Windows,      \* period -> [span, minutes]: _PORTFOLIO_HISTORY_WINDOWS and
                  \* _PORTFOLIO_HISTORY_DOWNSAMPLE_MINUTES
    MaxDelay,     \* the longest both passes of a tick take
    Cash, MaxPrice, MaxClock, MaxMoves, MaxRestarts    \* bounds

VARIABLES
    clock,        \* minutes since the epoch
    account,      \* at Binance: free and locked quote, the assets held
    price,        \* at Binance, of one unit of each asset
    moves,        \* trades and price changes so far
    tick,         \* the scheduler thread
    rows,         \* portfolio_snapshots in the order of snapshot_at
    broken,       \* a tick failed or the process restarted since the last row
    restarts

vars == <<clock, account, price, moves, tick, rows, broken, restarts>>

\* An interval of 0 would divide by zero in every tick; windows and resolutions
\* are the code's.
ASSUME HistoryAssumption ==
    /\ IsFiniteSet(Assets)
    /\ Interval \in Nat \ {0}
    /\ {MaxDelay, Cash, MaxPrice, MaxClock, MaxMoves, MaxRestarts} \subseteq Nat
    /\ \A w \in DOMAIN Windows : {Windows[w].span, Windows[w].minutes} \subseteq Nat

\* began, worth and steady are for the properties: when the balances were
\* read, what the account was worth then, and whether no price moved since.
Tick == [pc : {"wait", "price", "insert", "simulate"}, due : Nat, began : Nat,
         free : Nat, locked : Nat, left : SUBSET Assets,
         value : [Assets -> 0..MaxPrice], missed : SUBSET Assets, at : Nat,
         worth : Nat, steady : BOOLEAN]
\* The columns that are never read again are left out; broken is for the
\* properties.
Snapshot == [at : Nat, total : Nat, broken : BOOLEAN]

Unpriced == [a \in Assets |-> 0]
ValueOf(assets, value) == SumFunctionOnSet(value, assets)
Worth == account.free + account.locked + ValueOf(account.held, price)

\* bucket_timestamp
Bucket(t, minutes) == (t \div minutes) * minutes

Waiting(due, began) ==
    [pc |-> "wait", due |-> due, began |-> began, free |-> 0, locked |-> 0,
     left |-> {}, value |-> Unpriced, missed |-> {}, at |-> 0, worth |-> 0,
     steady |-> TRUE]

Init ==
    /\ clock = 0
    /\ account = [free |-> Cash, locked |-> 0, held |-> {}]
    /\ price \in [Assets -> {MaxPrice}]
    /\ moves = 0
    /\ tick = Waiting(0, 0)
    /\ rows = <<>>
    /\ broken = FALSE
    /\ restarts = 0

----------------------------------------------------------------------------
(* The account at Binance *)

\* One more event at Binance; a tick that is under way notes a new price.
Event(moved) ==
    /\ moves < MaxMoves
    /\ moves' = moves + 1
    /\ tick' = [tick EXCEPT !.steady = @ /\ ~moved]
    /\ UNCHANGED <<clock, rows, broken, restarts>>

Buy(a) ==
    /\ a \notin account.held
    /\ account.free >= price[a]
    /\ account' = [account EXCEPT !.held = @ \cup {a}, !.free = @ - price[a]]
    /\ price' = price
    /\ Event(FALSE)

Sell(a) ==
    /\ a \in account.held
    /\ account' = [account EXCEPT !.held = @ \ {a}, !.free = @ + price[a]]
    /\ price' = price
    /\ Event(FALSE)

\* A LIMIT order takes one unit of the cash.
Lock ==
    /\ account.free > 0
    /\ account' = [account EXCEPT !.free = @ - 1, !.locked = @ + 1]
    /\ price' = price
    /\ Event(FALSE)

Move(a) ==
    /\ \E p \in (0..MaxPrice) \ {price[a]} : price' = [price EXCEPT ![a] = p]
    /\ account' = account
    /\ Event(TRUE)

----------------------------------------------------------------------------
(* The scheduler thread *)

\* get_balances: the amounts of one moment.
ReadBalances ==
    /\ tick.pc = "wait"
    /\ clock >= tick.due
    /\ tick' = [Waiting(0, clock) EXCEPT !.pc = "price", !.free = account.free,
                   !.locked = account.locked, !.left = account.held,
                   !.worth = Worth]
    /\ UNCHANGED <<clock, account, price, moves, rows, broken, restarts>>

\* _price_balance in a worker: the calls end in any order, at prices of their
\* own moments.
PriceAsset(a) ==
    /\ tick.pc = "price" /\ a \in tick.left
    /\ tick' = [tick EXCEPT !.left = @ \ {a}, !.value[a] = price[a]]
    /\ UNCHANGED <<clock, account, price, moves, rows, broken, restarts>>

\* A BinanceError leaves the asset out of the sum; nothing else is told.
MissAsset(a) ==
    /\ tick.pc = "price" /\ a \in tick.left
    /\ tick' = [tick EXCEPT !.left = @ \ {a}, !.missed = @ \cup {a}]
    /\ UNCHANGED <<clock, account, price, moves, rows, broken, restarts>>

\* All is priced: the clock is read now, not when the balances were.
Stamp ==
    /\ tick.pc = "price" /\ tick.left = {}
    /\ tick' = [tick EXCEPT !.pc = "insert", !.at = Bucket(clock, Interval)]
    /\ UNCHANGED <<clock, account, price, moves, rows, broken, restarts>>

\* Plausible bug: the quote asset is valued by what of it is free.
MutantTotal == tick.free + ValueOf(Assets, tick.value)

\* total_value_quote; an asset that is missed or not held counts nothing.
Total == tick.free + tick.locked + ValueOf(Assets, tick.value)

Filed == [at |-> tick.at, total |-> Total, broken |-> broken]

\* UNIQUE (snapshot_at)
Taken(at) == \E i \in 1..Len(rows) : rows[i].at = at

\* INSERT ... ON CONFLICT DO NOTHING, and the commit.
Insert ==
    /\ tick.pc = "insert"
    /\ IF Taken(tick.at)
       THEN UNCHANGED <<rows, broken>>
       ELSE rows' = Append(rows, Filed) /\ broken' = FALSE
    /\ tick' = [tick EXCEPT !.pc = "simulate"]
    /\ UNCHANGED <<clock, account, price, moves, restarts>>

\* Binance is not configured or refuses the balances, a price is no number, or
\* the database is away: run_snapshot_tick logs it and returns.
Fail ==
    /\ tick.pc \in {"wait", "price", "insert"}
    /\ tick.pc = "wait" => clock >= tick.due
    /\ tick' = [Waiting(0, IF tick.pc = "wait" THEN clock ELSE tick.began)
                   EXCEPT !.pc = "simulate"]
    /\ broken' = TRUE
    /\ UNCHANGED <<clock, account, price, moves, rows, restarts>>

\* Plausible bug: the interval is waited for twice.
MutantPause ==
    /\ tick.pc = "simulate"
    /\ tick' = Waiting(clock + 2 * Interval, tick.began)
    /\ UNCHANGED <<clock, account, price, moves, rows, broken, restarts>>

\* run_simulation_snapshot_tick is over, and the thread waits one interval from
\* now.
Pause ==
    /\ tick.pc = "simulate"
    /\ tick' = Waiting(clock + Interval, tick.began)
    /\ UNCHANGED <<clock, account, price, moves, rows, broken, restarts>>

\* stop (or a crash), which loses what is not committed, and start.
Restart ==
    /\ restarts < MaxRestarts
    /\ restarts' = restarts + 1
    /\ tick' = Waiting(clock, tick.began)
    /\ broken' = TRUE
    /\ UNCHANGED <<clock, account, price, moves, rows>>

\* A tick takes at most MaxDelay, and the thread wakes up in time.
Advance ==
    /\ clock < MaxClock
    /\ IF tick.pc = "wait" THEN clock < tick.due ELSE clock < tick.began + MaxDelay
    /\ clock' = clock + 1
    /\ UNCHANGED <<account, price, moves, tick, rows, broken, restarts>>

Next ==
    \/ \E a \in Assets : Buy(a) \/ Sell(a) \/ Move(a) \/ PriceAsset(a) \/ MissAsset(a)
    \/ Lock \/ ReadBalances \/ Stamp \/ Insert \/ Fail \/ Pause \/ Restart \/ Advance

Spec == Init /\ [][Next]_vars

----------------------------------------------------------------------------
(* GET /portfolio/history *)

\* SelectSeq for what is in keep.
Selected(s, keep) ==
    LET kept[i \in 0..Len(s)] ==
            IF i = 0 THEN <<>>
            ELSE IF s[i] \in keep THEN Append(kept[i - 1], s[i]) ELSE kept[i - 1]
    IN  kept[Len(s)]

\* The rows since the window's start, by snapshot_at.
Recent(s, now, w) == Selected(s, {r \in Range(s) : r.at >= now - Windows[w].span})

\* Plausible bug: the first snapshot of a bucket stays.
MutantLatest(s, minutes) ==
    {r \in Range(s) : \A q \in Range(s) :
        Bucket(q.at, minutes) = Bucket(r.at, minutes) => q.at >= r.at}

\* The later snapshot of a bucket replaces the earlier one.
Latest(s, minutes) ==
    {r \in Range(s) : \A q \in Range(s) :
        Bucket(q.at, minutes) = Bucket(r.at, minutes) => q.at <= r.at}

Downsample(s, minutes) ==
    IF minutes <= 0 THEN s ELSE Selected(s, Latest(s, minutes))

\* The curve of the rows s at the time now.
Curve(s, now, w) == Downsample(Recent(s, now, w), Windows[w].minutes)

\* A percentage is the fraction drop / of; undefined (null) is no percentage.
Undefined == [drop |-> 0, of |-> 0]
Exceeds(x, y) == x.drop * y.of > y.drop * x.of

\* compute_return_pct, as a loss.
Loss(s) ==
    IF Len(s) < 2 \/ Head(s).total = 0 THEN Undefined
    ELSE [drop |-> Head(s).total - Last(s).total, of |-> Head(s).total]

\* Plausible bug: the peak starts again where the curve is at its lowest.
MutantHigher(peak, r) == IF r.total > peak \/ r.total = 0 THEN r.total ELSE peak

Higher(peak, r) == IF r.total > peak THEN r.total ELSE peak

\* compute_max_drawdown_pct: the body of the loop, and the loop.
Step(acc, r) ==
    LET peak == Higher(acc.peak, r)
        fall == [drop |-> peak - r.total, of |-> peak]
    IN  [peak |-> peak,
         worst |-> IF peak > 0 /\ (acc.worst = Undefined \/ Exceeds(fall, acc.worst))
                   THEN fall ELSE acc.worst]
Loop(s) ==
    LET acc[i \in 0..Len(s)] ==
            IF i = 0 THEN [peak |-> Head(s).total, worst |-> Undefined]
            ELSE Step(acc[i - 1], s[i])
    IN  acc
MaxDrawdown(s) == IF s = <<>> THEN Undefined ELSE Loop(s)[Len(s)].worst

----------------------------------------------------------------------------
TypeOK ==
    /\ clock \in 0..MaxClock
    /\ account \in [free : Nat, locked : Nat, held : SUBSET Assets]
    /\ price \in [Assets -> 0..MaxPrice]
    /\ moves \in 0..MaxMoves
    /\ tick \in Tick
    /\ rows \in Seq(Snapshot)
    /\ broken \in BOOLEAN
    /\ restarts \in 0..MaxRestarts

\* A bucket has one row, and rows come in the order of their buckets, though a
\* restarted scheduler takes a snapshot at once ("Restart-safe").
OnePerBucket == \A i, j \in 1..Len(rows) : i < j => rows[i].at < rows[j].at

\* What is filed while no price moved is what the account was worth when its
\* balances were read, less the assets whose price could not be had, though
\* it traded meanwhile; it is filed in the bucket of that time or a later one.
ValuedAsRead ==
    tick.pc = "insert" =>
        /\ tick.steady => Filed.total = tick.worth - ValueOf(tick.missed, price)
        /\ Filed.at \in Bucket(tick.began, Interval)..clock

\* A bucket without a row, between two rows,
\* has a failed tick or a restart behind it, or is a single one, which the
\* thread has stepped over by pausing after its work and not at a fixed time.
GapsAreExplained ==
    \A i \in 2..Len(rows) :
        rows[i].broken \/ rows[i].at - rows[i - 1].at <= 2 * Interval

\* Whatever fails, the next attempt comes an interval after the last: "a
\* failure must not permanently stop the scheduler thread".
KeepsTrying == clock <= tick.began + MaxDelay + Interval

\* The scheduler keeps to its schedule, through failures and restarts, and its
\* state well typed: one row per bucket, no gap without a reason, no attempt
\* that is overdue.
ScheduleKept == TypeOK /\ OnePerBucket /\ GapsAreExplained /\ KeepsTrying

\* The curve is made of snapshots in the window and ends with the newest one.
\* Of a bucket it has one point at most, and what it leaves out is followed by
\* a later point of the same bucket.
CurveIsRecorded ==
    \A w \in DOMAIN Windows :
        LET recent  == Range(Recent(rows, clock, w))
            curve   == Curve(rows, clock, w)
            minutes == Windows[w].minutes
        IN  /\ Range(curve) \subseteq recent
            /\ recent # {} => Last(curve) = Last(rows)
            /\ \A i, j \in 1..Len(curve) : i < j =>
                  /\ curve[i].at < curve[j].at
                  /\ minutes # 0 =>
                        Bucket(curve[i].at, minutes) # Bucket(curve[j].at, minutes)
            /\ \A r \in recent \ Range(curve) :
                  /\ minutes # 0
                  /\ \E p \in Range(curve) :
                        r.at < p.at /\ Bucket(p.at, minutes) = Bucket(r.at, minutes)

\* From every point of a curve to every later one, relative to the first.
Falls(s) ==
    {[drop |-> s[p[1]].total - s[p[2]].total, of |-> s[p[1]].total] :
        p \in {q \in (1..Len(s)) \X (1..Len(s)) : q[1] <= q[2] /\ s[q[1]].total > 0}}

\* The drawdown is that of two points of the curve in their order, and no two
\* others fall further.
DrawdownIsLargest ==
    \A w \in DOMAIN Windows :
        LET s == Curve(rows, clock, w)
            falls == Falls(s)
            worst == MaxDrawdown(s)
        IN  IF falls = {} THEN worst = Undefined
            ELSE worst \in falls /\ \A f \in falls : ~Exceeds(f, worst)

\* The two figures of an answer agree: the window never shows a loss beyond
\* its maximum drawdown.
LossWithinDrawdown ==
    \A w \in DOMAIN Windows :
        LET s == Curve(rows, clock, w)
        IN  Loss(s) # Undefined => ~Exceeds(Loss(s), MaxDrawdown(s))

\* The figures of an answer are those of its curve, and agree.
FiguresFollow == DrawdownIsLargest /\ LossWithinDrawdown

\* A point that was on the curve stays until it leaves the window or a later
\* snapshot of its bucket replaces it; none appears in the curve's past.
PastIsSettled ==
    [][\A w \in DOMAIN Windows :
          LET curve == Curve(rows, clock, w)
              next == Curve(rows', clock', w)
          IN  curve # <<>> =>
                 \A p \in Range(next) \ Range(curve) : p.at > Last(curve).at]_vars

=============================================================================
