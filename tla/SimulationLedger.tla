-------------------------- MODULE SimulationLedger --------------------------
(***************************************************************************)
(* The virtual ledger of one bot that starts in SIMULATION mode:           *)
(*   - trading/simulation_order_service.py      orders, fees, slippage;    *)
(*   - trading/bot_service.py                   what they do to the bot;   *)
(*   - trading/simulation_portfolio_service.py  realized P&L from orders;  *)
(*   - trading/simulation_snapshot_service.py and                          *)
(*     trading/portfolio_snapshot_scheduler.py  the snapshots a daemon     *)
(*                                              thread takes meanwhile.    *)
(*                                                                         *)
(* Pause and resume hold the bot's row lock from before they read the      *)
(* ledger until they commit (BotLifecycle), so each is one step here.  The *)
(* scheduler takes no lock: it reads the account and the position in       *)
(* separate statements, a step each.                                       *)
(*                                                                         *)
(* Money is counted in 1/10000 of the price unit, which makes percentages  *)
(* of percentages exact.                                                   *)
(***************************************************************************)
EXTENDS Integers, Sequences

CONSTANTS
    Prices,          \* market prices
    Targets,         \* target quantities
    Capital,         \* initial capital
    FeePct,          \* HERMES_SIMULATION_FEE_RATE_PCT
    SlippagePct,     \* HERMES_SIMULATION_SLIPPAGE_RATE_PCT
    BucketsPerDay,   \* snapshot intervals in a day
    MaxTime,         \* bound: the last interval
    MaxOrders        \* bound: simulated orders

ASSUME LedgerAssumption ==
    /\ Prices \subseteq Nat \ {0}
    /\ Targets \subseteq Nat \ {0}
    /\ {Capital, FeePct, MaxTime, MaxOrders} \subseteq Nat
    /\ SlippagePct \in 0..100
    /\ BucketsPerDay \in Nat \ {0}

VARIABLES
    bot,      \* the bot and its position
    cash,     \* simulation_accounts.cash_balance_quote
    orders,   \* simulation_orders, oldest first
    now,      \* the current snapshot interval
    tick,     \* the scheduler thread
    snaps     \* simulation_snapshots, by interval

vars == <<bot, cash, orders, now, tick, snaps>>

-----------------------------------------------------------------------------
(* Types *)

Status == {"ACTIVE", "PAUSED", "STOPPED", "ERROR", "absent"}
Quantities == Targets \cup {0}
Bot == [status : Status, mode : {"SIMULATION", "LIVE"},
        current : Quantities, target : Quantities]

OrderSide == {"BUY", "SELL"}
Order == [side : OrderSide, status : {"FILLED", "REJECTED", "FAILED"},
          qty : Quantities, notional : Nat, fee : Nat, day : Nat]

Intervals == 0..MaxTime
\* Cash and quantity decide a snapshot's values; the market price is left out.
Snapshot == [cash : Int, qty : Quantities]
NoSnapshot == [cash |-> 0, qty |-> -1]

\* last: the interval the previous tick ended in, -1 after a start.
Tick == [pc : {"idle", "account", "position", "record"}, cash : Int,
         qty : Quantities, last : Intervals \cup {-1}]
Started == [pc |-> "idle", cash |-> 0, qty |-> 0, last |-> -1]

TypeOK ==
    /\ bot \in Bot
    /\ cash \in Int
    /\ orders \in Seq(Order)
    /\ now \in Intervals
    /\ tick \in Tick
    /\ snaps \in [Intervals -> Snapshot \cup {NoSnapshot}]

Init ==
    /\ bot \in [status : {"PAUSED"}, mode : {"SIMULATION"}, current : {0},
                target : Targets]
    /\ cash = Capital
    /\ orders = <<>>
    /\ now = 0
    /\ tick = Started
    /\ snaps = [t \in Intervals |-> NoSnapshot]

-----------------------------------------------------------------------------
(* The arithmetic of a fill *)

Today == now \div BucketsPerDay

\* Slippage moves the price against the account.
Notional(side, n, p) ==
    n * p * 100 * (IF side = "BUY" THEN 100 + SlippagePct ELSE 100 - SlippagePct)

Fee(side, n, p) == (Notional(side, n, p) \div 100) * FeePct

MutantAffordable(side, n, p) == side = "BUY" => n * p * 10000 <= cash

\* The check adds the two rates to the notional; the fill compounds them.
Affordable(side, n, p) ==
    side = "BUY" => n * p * 100 * (100 + FeePct + SlippagePct) <= cash

\* A row with the columns of an order that was not filled.
Row(side, status) ==
    [side |-> side, status |-> status, qty |-> 0, notional |-> 0, fee |-> 0,
     day |-> Today]

-----------------------------------------------------------------------------
(* Simulated orders, and what the transition makes of them *)

Opposite(status) == IF status = "PAUSED" THEN "ACTIVE" ELSE "PAUSED"

\* A resume buys the target quantity, a pause sells all that is held.
Wanted(side) == IF side = "BUY" THEN bot.target ELSE bot.current

MayTrade(side) ==
    /\ bot.status = IF side = "BUY" THEN "PAUSED" ELSE "ACTIVE"
    /\ bot.mode = "SIMULATION"
    /\ Len(orders) < MaxOrders

\* The bot after its order was filled.
Advanced(side) ==
    [bot EXCEPT !.status = Opposite(@),
                !.current = IF side = "BUY" THEN bot.target ELSE 0]

Fill(side, p) ==
    LET n == Wanted(side) IN
    /\ MayTrade(side) /\ Affordable(side, n, p)
    /\ orders' = Append(orders,
           [Row(side, "FILLED") EXCEPT !.qty = n,
                                       !.notional = Notional(side, n, p),
                                       !.fee = Fee(side, n, p)])
    /\ cash' = IF side = "BUY"
               THEN cash - (Notional(side, n, p) + Fee(side, n, p))
               ELSE cash + (Notional(side, n, p) - Fee(side, n, p))
    /\ bot' = Advanced(side)
    /\ UNCHANGED <<now, tick, snaps>>

\* Validator, risk engine or balance: the bot keeps its status.
Reject(side) ==
    /\ MayTrade(side)
    /\ orders' = Append(orders, Row(side, "REJECTED"))
    /\ UNCHANGED <<bot, cash, now, tick, snaps>>

MutantFail(side) ==
    /\ MayTrade(side)
    /\ orders' = Append(orders, Row(side, "FAILED"))
    /\ bot' = Advanced(side)
    /\ UNCHANGED <<cash, now, tick, snaps>>

MutantFailRaw(side) ==
    /\ MayTrade(side)
    /\ orders' = Append(orders, Row(side, "FAILED"))
    /\ bot' = [bot EXCEPT !.status = "FAILED"]
    /\ UNCHANGED <<cash, now, tick, snaps>>

\* No price or no exchange information: never filled at an invented price.
Fail(side) ==
    /\ MayTrade(side)
    /\ orders' = Append(orders, Row(side, "FAILED"))
    /\ bot' = [bot EXCEPT !.status = "ERROR"]
    /\ UNCHANGED <<cash, now, tick, snaps>>

\* An exception before any row is written, as for a filter that is missing.
Raise(side) ==
    /\ MayTrade(side)
    /\ bot' = [bot EXCEPT !.status = "ERROR"]
    /\ UNCHANGED <<cash, orders, now, tick, snaps>>

-----------------------------------------------------------------------------
(* The other operations on the bot *)

Change(b) ==
    /\ bot' = b
    /\ UNCHANGED <<cash, orders, now, tick, snaps>>

UpdateBot(n) ==
    bot.status = "PAUSED" /\ Change([bot EXCEPT !.target = n])

StopBot ==
    /\ bot.status \in {"ACTIVE", "PAUSED", "ERROR"}
    /\ Change([bot EXCEPT !.status = "STOPPED"])

ActivateLive ==
    /\ bot.status = "PAUSED" /\ bot.mode = "SIMULATION"
    /\ Change([bot EXCEPT !.mode = "LIVE"])

\* A LIVE bot trades at Binance; the position row is the same one.
TradeLive(side) ==
    /\ bot.mode = "LIVE"
    /\ bot.status = IF side = "BUY" THEN "PAUSED" ELSE "ACTIVE"
    /\ \/ Change(Advanced(side))
       \/ Change([bot EXCEPT !.status = "ERROR"])

\* Account, orders and snapshots go with the bot (ON DELETE CASCADE).
DeleteBot ==
    /\ bot.status \in {"PAUSED", "STOPPED"}
    /\ bot' = [bot EXCEPT !.status = "absent", !.current = 0]
    /\ cash' = 0
    /\ orders' = <<>>
    /\ snaps' = [t \in Intervals |-> NoSnapshot]
    /\ UNCHANGED <<now, tick>>

-----------------------------------------------------------------------------
(* The scheduler thread *)

Advance ==
    /\ now < MaxTime
    /\ now' = now + 1
    /\ UNCHANGED <<bot, cash, orders, tick, snaps>>

Step(t) ==
    /\ tick' = t
    /\ UNCHANGED <<bot, cash, orders, now, snaps>>

Ended == [Started EXCEPT !.last = now]

\* The thread waits one interval after a tick.  Only SIMULATION bots are
\* selected.
StartTick ==
    /\ tick.pc = "idle" /\ tick.last < now
    /\ bot.status # "absent" /\ bot.mode = "SIMULATION"
    /\ Step([tick EXCEPT !.pc = "account"])

ReadAccount ==
    /\ tick.pc = "account"
    /\ Step(IF bot.status = "absent" THEN Ended
            ELSE [tick EXCEPT !.pc = "position", !.cash = cash])

\* Plausible bug: the snapshot shows the position the bot aims at.
MutantReadPosition ==
    /\ tick.pc = "position"
    /\ Step([tick EXCEPT !.pc = "record", !.qty = bot.target])

\* The position is loaded when it is first used.
ReadPosition ==
    /\ tick.pc = "position"
    /\ Step([tick EXCEPT !.pc = "record", !.qty = bot.current])

\* A position whose price is unknown is not recorded in this interval.
Skip ==
    /\ tick.pc = "record" /\ tick.qty > 0
    /\ Step(Ended)

MutantRecord ==
    /\ tick.pc = "record"
    /\ snaps' = IF bot.status # "absent"
                THEN [snaps EXCEPT ![now] = [cash |-> tick.cash, qty |-> tick.qty]]
                ELSE snaps
    /\ tick' = Ended
    /\ UNCHANGED <<bot, cash, orders, now>>

\* INSERT ... ON CONFLICT DO NOTHING; the bot's row may be gone by now, and
\* then the insert fails.
Record ==
    /\ tick.pc = "record"
    /\ snaps' = IF snaps[now] = NoSnapshot /\ bot.status # "absent"
                THEN [snaps EXCEPT ![now] = [cash |-> tick.cash, qty |-> tick.qty]]
                ELSE snaps
    /\ tick' = Ended
    /\ UNCHANGED <<bot, cash, orders, now>>

\* The process restarts, and with it the thread.
Restart == Step(Started)

-----------------------------------------------------------------------------

Trade(side) ==
    \/ \E p \in Prices : Fill(side, p)
    \/ Reject(side) \/ Fail(side) \/ Raise(side)

Scheduler ==
    StartTick \/ ReadAccount \/ ReadPosition \/ Skip \/ Record

Next ==
    \/ \E side \in OrderSide : Trade(side) \/ TradeLive(side)
    \/ \E n \in Targets : UpdateBot(n)
    \/ StopBot \/ ActivateLive \/ DeleteBot
    \/ Scheduler \/ Restart \/ Advance

Spec == Init /\ [][Next]_vars

-----------------------------------------------------------------------------
(* The ledger's figures, worked out from the orders *)

BuyCost(o) == o.notional + o.fee

MutantSellProceeds(o) == o.notional
SellProceeds(o) == o.notional - o.fee

\* What a filled order does to the account and to what is held; the others do
\* nothing.
Opened == [cash |-> Capital, held |-> 0, fills |-> 0]
Booked(book, o) ==
    IF o.status # "FILLED" THEN book
    ELSE IF o.side = "BUY"
    THEN [cash |-> book.cash - BuyCost(o), held |-> book.held + o.qty,
          fills |-> book.fills + 1]
    ELSE [cash |-> book.cash + SellProceeds(o), held |-> book.held - o.qty,
          fills |-> book.fills + 1]

\* The books after each of the orders in s.
Books(s) ==
    LET book[i \in 0..Len(s)] ==
            IF i = 0 THEN Opened ELSE Booked(book[i - 1], s[i])
    IN  book

\* Realized P&L, as the performance route computes it: one walk over the filled
\* orders keeps the open BUY, if any, and what the round trips closed on the day
\* came to.
NoOpenBuy == [open |-> FALSE, cost |-> 0, realized |-> 0, trips |-> 0]
Paired(walk, o, day) ==
    IF o.status # "FILLED" THEN walk
    ELSE IF o.side = "BUY"
    THEN [walk EXCEPT !.open = TRUE, !.cost = BuyCost(o)]
    ELSE IF walk.open
    THEN [open |-> FALSE, cost |-> 0,
          realized |-> walk.realized
              + IF o.day = day THEN SellProceeds(o) - walk.cost ELSE 0,
          trips |-> walk.trips + 1]
    ELSE walk

PairUp(s, day) ==
    LET walk[i \in 0..Len(s)] ==
            IF i = 0 THEN NoOpenBuy ELSE Paired(walk[i - 1], s[i], day)
    IN  walk

RealizedPnlOn(s, day) == PairUp(s, day)[Len(s)].realized
TradeCount(s) == PairUp(s, 0)[Len(s)].trips

-----------------------------------------------------------------------------
(* Safety *)

Present == bot.status # "absent"
LastDay == MaxTime \div BucketsPerDay

\* The P&L of the days up to each day.
PnlUpTo(s) ==
    LET total[d \in 0..LastDay] ==
            IF d = 0 THEN RealizedPnlOn(s, 0)
            ELSE total[d - 1] + RealizedPnlOn(s, d)
    IN  total

\* What the first i orders left in the account, and of the instrument.
Balance(i) == Books(orders)[i].cash
Holding(i) == Books(orders)[i].held

\* The virtual ledger is complete: cash, and the position while the bot is
\* simulated, follow from the filled orders.
LedgerExplained ==
    Present =>
        /\ cash = Balance(Len(orders))
        /\ bot.mode = "SIMULATION" => bot.current = Holding(Len(orders))

\* While nothing is held, the P&L of all days together is exactly what the
\* account gained, and every sale counted as one round trip.
PnlIsCashChange ==
    Present /\ Holding(Len(orders)) = 0 =>
        /\ PnlUpTo(orders)[LastDay] = cash - Capital
        /\ 2 * TradeCount(orders) = Books(orders)[Len(orders)].fills

\* The account is overdrawn at most by the product of the two rates, which the
\* check before the fill leaves out.
OverdraftBounded ==
    \A n \in Targets, p \in Prices :
        (\A m \in Targets, r \in Prices : m * r <= n * p) =>
            cash >= -(n * p * FeePct * SlippagePct)

\* A snapshot is never rewritten: neither by a second tick in its interval
\* after a restart, nor by one that was overtaken.
SnapshotsFinal ==
    [][ \A t \in Intervals :
          snaps[t] # NoSnapshot /\ bot'.status # "absent"
              => snaps'[t] = snaps[t] ]_vars

\* A snapshot's cash and quantity are both amounts the ledger had, the cash not
\* later than the quantity.  They need not be of one moment: two statements
\* read them, and a fill may commit in between.
SnapshotWithinTick ==
    Present /\ bot.mode = "SIMULATION" =>
        \A t \in Intervals :
            snaps[t] # NoSnapshot =>
                \E j \in 0..Len(orders) :
                    /\ snaps[t].qty = Holding(j)
                    /\ \E i \in 0..j : snaps[t].cash = Balance(i)

=============================================================================
