# Hermes v2: formal models and proofs

TLA+ models of the parts of Hermes v2 where a mistake costs money or lets somebody
in: placing and cancelling orders exactly once, keeping the database's view of an
order true, moving a bot through its life, the simulated account a bot starts with,
the risk limits an order has to pass, signing in under a rate limit, the user's own
Binance key, the account's history, and the selection of a forecasting model. TLC
checks the models on small instances; TLAPS proves the most important results for
every instance. Paths below are relative to
`src/hermes_v2/`.

## The system

Hermes is a FastAPI application with one PostgreSQL database and the Binance REST
API behind it. One uvicorn worker runs one event loop. The *mutating* routes are
`async` functions that call synchronous services, so on the deployed
configuration they run one at a time from start to end. The routes that only read
orders load rows on the loop and hand the refresh from Binance to the thread
pool; connecting a Binance key does its work there and comes back to the loop to
commit. A daemon thread takes portfolio snapshots. Each request has one SQLAlchemy
session and one transaction at READ COMMITTED (`autoflush=False`,
`expire_on_commit=False`), committed by the route when the service returns *or
raises*; an UPDATE carries only the columns that changed. The unit tests
(`tests/test_idempotency_concurrency.py`, `tests/test_bot_concurrency.py`) show
that the services are meant to be correct under several threads too, so the
models have a constant `SingleLoop` and are checked both ways.

| Component | State it keeps | Operations | What makes it hard | What makes it correct |
|---|---|---|---|---|
| Orders (`trading/order_service.py`, `idempotency.py`) | `idempotency_keys`, `orders`, audit rows | create, close position, cancel | retries, racing keys, lost answers, lost transactions | one order per key; a key is never left in progress; every retry gets the first answer |
| Reconciliation (`trading/reconciliation.py`, read routes) | `orders` | map a payload on a row; refresh on read | refreshes overlap each other and cancels | a row never claims what did not happen; terminal rows stay |
| Kill switch (`trading/kill_switch.py`, settings) | per-user switch, operator switch | read at the gate | read long before the call | nothing reaches Binance while trading is off |
| Bots (`trading/bot_service.py`, `api/bots_routes.py`) | `bots`, `bot_positions` | create, update, pause, resume, stop, activate live, delete | an order inside a transition; row lock; ambiguous outcomes; answers that cannot be read; restarts | book equals what was traded; never oversold; a bot left in a transition has a key that was never answered |
| Simulation (`trading/simulation_*`) | virtual account, simulated orders, snapshots | fill, reject, fail, snapshot | the cash check and the debit compute the cost differently; a snapshot during a fill; a restarted scheduler | cash and position explained by fills; P&L pairs the right orders; a snapshot is one moment's value, written once |
| Risk engine, validator, user limits | limits | verdict on an order | the account is read in several calls, each at its own prices, that fail one by one; the order fills later; the trade history is cut | no order exceeds a limit by more than the prices moved while it was handled, when every read succeeds |
| Positions and cost basis (`trading/positions_service.py`) | none (Binance trades) | cost basis, realized loss of the day | partial history, prices that cannot be read | agrees with the money that moved |
| Portfolio snapshots, scheduler, history (`trading/portfolio_snapshot_*.py`) | `portfolio_snapshots` | one tick per interval; window, downsampling, return, drawdown | the account trades while it is being valued; single prices fail; restarts; bucket edges; zeros | one row per bucket, of a value the account had; no gap without a reason; the curve is the rows and the figures are the curve's |
| Rate limiters (`auth/rate_limiting.py`) | hits per client | check | the clock is read before the lock; window edges | no window sees more than the limit; who waits as told is let in; the memory of a key is bounded |
| Login (`auth/oauth.py`, `service.py`, `session.py`) | login states, `identities`, `sessions` | login, callback, logout, look-up | callback races, expiry, restarts, a user disabled meanwhile | a state opens one session, for the user whose account earned it; dead sessions stay dead |
| Credentials (`trading/binance_credentials_service.py`, `api/settings_routes.py`) | `user_binance_credentials` | connect, disconnect | row locks held across the event loop; racing upserts and deletes | a stored key was verified, and is the one the user was told of |
| Model selection (`model_selection/`) | none | split, fit, predict, rank | off-by-one in lags and splits, ties, singular cases | no row a prediction is computed from holds its future; the candidate selected is the best |
| Settings routes | user settings | read, write | none beyond the switch, the limits and the credentials | last writer wins |
| Binance client | time offset | REST calls | ambiguous failures | a failure is never taken for a refusal |
| Exchange-info cache | per-symbol entries | get | none: only called while the event loop is held | no entry older than its time to live |
| Roles, permissions, bootstrap | seeded rows | look-ups | none | sequential |
| CLI, runtime, configuration, database, origin check | environment | wiring | none | out of scope |

Interactions: a bot transition calls the order service (LIVE) or the simulated
order service (SIMULATION) *inside its own transaction*; both reserve an inner
idempotency key derived from the outer one. Order creation calls the switch, the
validator, the risk engine (which reads Binance) and the Binance client. The read
routes write to the rows the order service owns. The login route runs behind a rate
limiter. The scheduler's tick first values the account (`PortfolioHistory`), then the
simulated bots (`SimulationLedger`). `PROJECT.json` lists the hazards
of all this, each at its line and with the properties that watch it.

## Modules

| Module | Models | Built on |
|---|---|---|
| `OnceOnly` | abstract promise of the idempotency machinery: a key is executed at most once, one answer is recorded, every reply repeats it | |
| `OrderExecution` | `order_service.py`, `idempotency.py`, `kill_switch.py`, `reconciliation.py` and the transactions of `api/trading_routes.py` | implements `OnceOnly` |
| `OrderExecution_proofs` | theorems and proofs about `OrderExecution`: one order per key, what requests are told, what the rows say, the refinement of `OnceOnly` | |
| `BotLifecycle` | `bot_service.py` and the transactions of `api/bots_routes.py`, one bot | |
| `BotLifecycle_proofs` | theorems and proofs about `BotLifecycle` | |
| `SimulationLedger` | `simulation_order_service.py`, `simulation_portfolio_service.py`, `simulation_snapshot_service.py`, the scheduler, and what they do to one bot | |
| `SimulationLedger_proofs` | theorems and proofs about `SimulationLedger` | |
| `RiskGate` | `risk_engine.py`, `order_validator.py`, and the reads of `positions_service.py` and `portfolio_service.py` they decide on | |
| `RiskGate_proofs` | theorems and proofs about `RiskGate` | |
| `RateLimiter` | `rate_limiting.py`, one key | |
| `SignIn` | `oauth.py`, `service.py`, `session.py`, `google.py` with the routes in `oauth.py` | an instance of `RateLimiter` |
| `SignIn_proofs` | theorems and proofs about `SignIn`, and about `RateLimiter` | |
| `Credentials` | `binance_credentials_service.py` and its two routes in `api/settings_routes.py` | |
| `Credentials_proofs` | theorems and proofs about `Credentials` | |
| `PortfolioHistory` | `portfolio_snapshot_service.py`, `portfolio_snapshot_scheduler.py`, the valuation in `portfolio_service.py`, the history route | |
| `PortfolioHistory_proofs` | theorems and proofs about `PortfolioHistory` | |
| `ModelSelection` | `model_selection/` | |
| `ModelSelection_proofs` | theorems and proofs about `ModelSelection` | |
| `MC*` | definitions for TLC, one module for each of the others that has a run | |

`BotLifecycle` treats an order as one step with the outcomes `OrderExecution` has
for it, and the arithmetic of a simulated fill as a free choice; `SimulationLedger`
takes the lifecycle's operations over, without their concurrency, and works the
arithmetic out. `RiskGate` is the decision behind the `Approve` / `Reject` choice of
`OrderExecution`.

### OrderExecution

A request is a record `req[q]` whose `pc` says where its handler is, with the
uncommitted idempotency response (`resp`), the row as its session loaded it
(`base`) and as it is now (`row`). Other requests see nothing of it until
`Commit`; that is what READ COMMITTED gives. `exch` is Binance: changed by calls at
once, never rolled back. `Abort` throws the transaction away at any point between
the arrival and the commit, with whatever Binance did left in place.

| Action | Code |
|---|---|
| `ReceiveCreate`, `ReceiveClose`, `ReceiveCancel` | the routes; with `SingleLoop` only when no handler runs |
| `FindPosition`, `NoPosition` | `close_position`, before its reservation |
| `Claim`, `RefuseInProgress`, `RefuseConflict`, `Replay` | `idempotency.reserve`; the insert waits for an open transaction holding the key (`MayInsert`) |
| `Permit`, `Deny` | the kill-switch gate |
| `Approve`, `Reject`, `InternalError` | validator and risk engine, and the safety net |
| `SubmitAcked`, `SubmitLost`, `SubmitRefused` | the call, by what Binance did and what the caller learnt |
| `ConfirmFound`, `ConfirmFailed` | `_handle_ambiguous_create_failure` |
| `FindMissing`, `FindClosed`, `FindOpen`, `CancelAcked`, `CancelLost`, `CancelRefused` | `cancel_order` |
| `Commit`, `Abort` | `_run_order_service_action`, or its loss |
| `Load`, `Fetch`, `ReadEnds`, `Write`, `AbortRead` | `_reconcile_on_read` |
| `SetSwitch` | the settings route, the operator |
| `Fill`, `Expire`, `FinishCancel` | Binance (external) |

Abstractions: a client order id is the (user, endpoint, key) triple it is hashed
from; a body is what its hash tells apart; a quantity is a number of lots; prices,
reasons, audit rows and order events are left out. A write-back (`Flush`) is per
column, because that is what decides what overlapping writers leave.

Assumption about Binance: with `ExchangeDedups` it refuses a client order id it
has accepted before (`idempotency.py:61-64`). `OrdersConcurrent` does without it.

Three behaviours the model has that may surprise, none of them a finding: when the
confirmation of a lost submission fails as well, the row says FAILED though the order
may be live, and since FAILED is terminal no refresh corrects it (the documentation
tells the operator to look). A request the kill switch denies answers 403, and its
retry gets the stored answer instead. A cancel that Binance answers with a status the
map lacks leaves its key PROCESSING for good (`Finalized` is checked without such
statuses); the same missing handler leaves a bot in a transition, which is a finding,
because the documents of `bot_service.py` deny it.

### BotLifecycle

One bot; requests as above with `lock` after `reserve` (`SELECT ... FOR UPDATE`,
`Locked`). `StartTransition` sets PAUSING or RESUMING inside the transaction, then
the order is a single step by outcome (`SimulatedOrder`, `NotSubmitted`,
`Submitted`), followed, when Binance left it open, by the one reconciling read
(`Reconcile`, `ReconcileRaises`). `Concluded` is the outcome table at the head of
`bot_service.py`. Two steps come outside the `try` block of `_transition`: the balance
check of a LIVE resume, which catches a `BinanceError` only, and the reconciling read.
Where Binance answers what the code cannot read (`MayMisread`: balances or a price of an
unexpected shape, an unknown status), `BalanceRaises` and `ReconcileRaises` leave the
handler with what was flushed, and the route commits that.

`held` is a history variable: what the bot's orders really bought and did not sell; the
code has no such column, it is what `bot_positions.current_quantity` should be. `Abort`
loses a transaction at any point; the order it had placed is then marked `lost` (`Lose`)
and no longer counts in `held` (`Counted`), because no row of the database knows of it,
until a retry under its key finds it (`Found`). So the book is compared with the orders
that the bot's transactions have to answer for, with crashes as without.

Abstractions: other bots share nothing with this one but the inner keys, which
contain the bot's id; names, strategy and risk profile have no effect on the
lifecycle; `activate_live`'s credential check is a free choice.

### SimulationLedger

Pause and resume hold the bot's row lock from before they read the ledger until they
commit, which is what `BotLifecycle` checks, so a whole transition is one step. The
scheduler thread takes no lock: each of its statements is a step.

| Action | Code |
|---|---|
| `Fill` | a simulated order that is filled: price with slippage, fee, order row, cash, position, status |
| `Reject`, `Fail`, `Raise` | validator, risk engine or balance; no market data; an exception before a row exists |
| `UpdateBot`, `StopBot`, `ActivateLive`, `TradeLive`, `DeleteBot` | the other operations of `bot_service.py` that touch the bot or its position |
| `StartTick`, `ReadAccount`, `ReadPosition`, `Skip`, `Record` | `take_simulation_snapshot`, statement by statement |
| `Advance`, `Restart` | the clock; the process starts again |

`PairUp` is the walk of `compute_realized_pnl_today` and of the trade count, `Books`
what the filled orders did to cash and position; both are recursive functions over the
orders, which skip the ones that were not filled.
Money is counted in 1/10000 of the price unit, so that a percentage of a percentage
is exact. A snapshot keeps the cash and the quantity, which decide its columns up to
the market price. A denied order changes nothing here and is not an action.

### RiskGate

The handler of a MARKET order is one step, because on the deployed event loop no other
handler runs meanwhile: read the account, decide, execute. The loop does not hold the
market still, and the step does not either: the price the validator reads, the position
of the symbol, all positions, the value of the account and the histories are separate
calls to Binance, and `Reads(s)` gives each of them prices of its own (`PricesOf`; with
`MayFail`, of any subset of the symbols it asks for). The order fills at yet another
price, `price'`. Nothing relates these but `Near`: the prices met while one order is
handled are within `DriftNum / DriftDen` of each other. That is an assumption about the
market, and the unit in which `GateHolds` measures how far a limit may be exceeded.

| Definition | Code |
|---|---|
| `Valid` | `order_validator.py`, MARKET orders |
| `Approved` and its parts | the checks of `risk_engine.py`, with the limits a user saved or none |
| `Walk`, `Bought`, `Sold`, `LossToday` | `_cost_basis_walk` and the realized loss of the day, on the trades that Binance returns |
| `Reads`, `ExposureAt`, `TotalAt` | what the calls to Binance return, and the sums over it |
| `Buy`, `Sell`, `ClosePosition` | an approved order, executed at the price there is when it is sent |
| `SaveLimits`, `MovePrice`, `NextDay` | the settings route; the world |

Left out: resting LIMIT orders and their prices, commissions, and the limits of
simulated orders (the same engine with defaults). The exposure of open LIMIT orders
is therefore not a question this model answers. Nor does it ask what a deposit or an
order placed elsewhere does between two reads, or a midnight: balances change by these
orders only, and the reads of one order are of one day. A fill has one price,
which stands for the average of its parts.

`ExposureAt` is a sum over a set of symbols, `Walk` and `Cash` are recursive functions over
a symbol's trades, so that they can be proved about. Quotients are rounded down to whole numbers, where the code has 28
digits; the prices of a run are chosen so that most are whole, and the theorems about
the walk hold with the rounding.

### RateLimiter and SignIn

A limiter's keys share nothing but its lock, so `RateLimiter` has one key. `check`
reads the clock *before* it takes the lock: `ReadClock` is a step of its own, and up to
`MaxDelay` may pass until `Admit` or `Refuse`, the critical section. The deque is the
part of `log` from `first` on; the rest are the hits already popped, which only the
properties look at.

`SignIn` takes that module as an instance for the login endpoint.

| Action | Code |
|---|---|
| `Login`, `Admitted`, `TooMany`, `CreateState`, `RefuseReturn` | `GET /auth/google/login` behind its limiter |
| `Redeem`, `RefuseState` | `OAuthStateStore.consume` in the callback |
| `Vouched`, `GiveUp` | the exchange with Google; its failures and the losses of a transaction |
| `Resolve`, `FirstLogin`, `Link` | `resolve_google_user`, with the unique constraint on the Google account |
| `CreateSession`, `Logout` | `create_session` and its commit; logout |
| `SetStatus`, `Restart`, `Tick` | a user disabled or enabled in the database; the process; the clock |

A request remembers how old its state was and who was ACTIVE since it was redeemed
(`age`, `seen`), for the properties. The deployed event loop allows fewer
interleavings than the model has. Cookies, token formats and the other limiters'
endpoints are left out: a request that a limiter refuses is one that was not sent.

### Credentials

PUT verifies the key, loads the row and flushes it in a worker thread and commits on
the event loop; DELETE does everything on the loop. The row is locked from the flush
to the commit (`lock`), and `loop` says whose handler holds the event loop.

| Action | Code |
|---|---|
| `Submit`, `Verify`, `Refuse`, `Load`, `Flush` | `put_binance_credentials_route` up to the end of the worker thread, `connect_credentials` |
| `Commit`, `Lose` | the commit on the loop, or its loss |
| `Disconnect`, `Remove`, `CommitRemoval` | `delete_binance_credentials_route` |
| `Restart` | the process |

An UPDATE writes the columns that differ from what was loaded (`Updated`); ciphertexts
never repeat, so the key is always among them, and the last four characters are not.

### PortfolioHistory

| Action | Code |
|---|---|
| `Buy`, `Sell`, `Lock`, `Move` | Binance (external) |
| `ReadBalances`, `PriceAsset`, `MissAsset`, `Stamp`, `Insert` | a tick: the balances, one call for each price, the bucket, the insert |
| `Fail`, `Pause`, `Restart`, `Advance` | a tick that raises; the wait for one interval; the process; the clock |
| `Recent`, `Latest`, `Downsample`, `Curve` | the history route: the window and its thinning out, of given rows at a given time |
| `Loss`, `Step`, `Loop`, `MaxDrawdown` | the two figures of a curve |

Returns and drawdowns are fractions that are compared by multiplying out. `Selected`
(the rows of a set, in their order) and `Loop` (one value per point of the curve) are
recursive functions, so that they can be proved about. Amounts and totals have no
bound: an account that buys low and sells high outgrows any that is set beforehand. The
pass over the simulated bots which ends a tick is `SimulationLedger`'s.

### ModelSelection

A selector is constructed, called with a series, splits it, evaluates its candidates
one after the other (`Pass`, `Fail`) and ranks them. The split may come one short where
floating point makes it so (`SplitIndexes`). The design matrices are the code's slices
(`Column`, `Design`). Least squares itself is numpy's: a fit exists where the columns
of the matrix are independent, and its residual sum of squares is any number that the
fits of smaller and larger models allow (`Possible`). Logarithms are a table that does
not decrease. The sort is the permutation
`Ordered` describes: keys in order, equal keys in the order of the list.

## Runs

Every passing run explores its whole state space in less than three minutes. Deadlock
checking is off in all of them: a system with no request left to send may rest.

| Run | Question | Answer |
|---|---|---|
| `OrdersConcurrent` | threads race on one key and Binance does not deduplicate | one order, one answer, every key finalized, every handler ends; a terminal row is rewritten only by who had loaded it open |
| `OrdersDeployed` | event loop, lost transactions, unknown statuses, a close key | implements `OnceOnly`; no submission by a request that found trading off |
| `Bots` | threads race on one bot, ambiguous orders, unreadable answers, lost transactions | the book is what was traded; never oversold; a bot is left in a transition by an unreadable answer only, and its key tells; every request ends |
| `BotsStranded` | does every transition end in a stable status, with its key answered? | **no**: an exception outside the `try` block commits RESUMING or PAUSING |
| `RiskGate` | all reads succeed, at prices that move; the history is cut | no order exceeds a limit by more than the prices moved; the walk agrees with the money |
| `RiskBlind` | no price moves, but single reads fail | **no**, the limits do not hold: a position without a price counts as nothing |
| `Ledger` | one simulated bot over two days, with fees, slippage and the scheduler | cash, position and P&L follow from the orders; the overdraft is bounded; snapshots are of their tick, and final |
| `SignIn` | logins and callbacks race, under a rate limit, with restarts | one session per state, earned by its user; few logins; no session revived |
| `Connect` | connects and disconnects race | the stored key is verified and the one promised; labels are explained; requests end unless the loop is stuck |
| `LoopBlocked` | does the event loop keep dispatching? | **no**: a disconnect waits on it for a connect that needs it |
| `History` | the account is valued while it trades, and its history read | what is stored is what was read; no gap without a reason; curve and figures follow from the rows |
| `Selection` | every short series, list, split and possible residual | no row a prediction is computed from holds its future; the candidate selected is the best |

The three runs marked **no** are disagreements between the code and what its documents
and comments say; the findings in `PROJECT.json` quote both sides.

Some properties are conjunctions of named parts, each with a comment of its own in its
module: `LoginsLimited`, `ScheduleKept`, `FiguresFollow` and `SelectionSound`.

**Bounds.** Three requests on one key are enough for the cases a key has: one that
executes, one that waits, one that comes later; with two bodies for the conflict and
one cancel. `OrdersConcurrent` has one lot, because it is about who executes;
`OrdersDeployed` has two, which tell none, partial and full execution apart. A bot has
two slots, because the lock is about pairs of requests: one asks for every operation under
one key, the other resumes under the same key and pauses under its own. So two requests
race on one key (the resumes) and on two (the pauses), every slot is reused, and a
transition can lose its transaction and be retried. One target of two lots tells none,
partial and full execution apart; `update` may only set it again, so the retry that finds
an order of another quantity (the premise of `BookMatchesTrades`) is a matter of the
theorem, not of the run.
`Ledger` has four orders: two round trips, or one with orders that fail in between;
two days, for P&L that is realized on another day than the purchase; and a capital
(48100) at the edge, where the sum of the two rates passes the cash check and their
product overdraws the account. `RiskGate` has up to four trades with a window of two, so
that a returned history may start in the middle of a position; two symbols, so that the
share of one and of all differ; and two prices, 64 and 72, that one order may meet both
of (the drift is 9/8), in any order over its reads and its fill. In `RiskBlind`
the prices are far apart and the drift is one: only the failed read can be to blame.
`SignIn` has two requests, because a race for a state or a link is between two, three
states, a limit of two logins in a window of three, so that the window fills and opens
again before the clock ends, and one disabling or restart. `Connect` has three connects
with two keys: one that wins, one that loses, one that comes after a disconnect;
`LoopBlocked` needs one connect of an existing row and one disconnect, so two and one.
`History` has a clock of seven minutes with buckets of two: four buckets, a long window
thinned out to every other of them and one that the early rows leave; three events at
Binance during one tick; one restart. `Selection` has series of one to ten
observations, the shortest at which the default candidates have a fit and a validation
part, and shorter ones where they fail one by one.

**Fairness.** `OrderExecution` assumes weak fairness of each handler as a whole and
of each refresh: the loop or the thread pool runs what was started, every HTTP call
has a time-out, and PostgreSQL wakes a blocked insert when its holder ends.
`BotLifecycle` assumes strong fairness of each handler (`SF_vars(Handle(q))`): a
request that waits for the row lock is enabled again and again while others take it
in turns and lose their transactions, and PostgreSQL queues those who wait for a row. Its
`HandlersFinish` says that each slot is free again and again. `Credentials` assumes weak
fairness of each request (Binance and the database answer, a free loop resumes what is
ready); requests are sent once each, so nobody can be overtaken for ever. Nothing else
is fair: no client need send, nobody need turn the switch, Binance need not fill. The
scheduler's progress is stated with the clock instead (`KeepsTrying`).

## Known divergences and surprises

What the models show besides the three findings; each is behaviour of the code that the
properties had to allow for.

* A refresh or cancel that loaded a row before it became terminal writes over it
  (`OnlyOvertakenRewrite` says that nothing else does).
* When the confirmation of a lost submission fails as well, the row says FAILED though
  the order may be live, and no refresh corrects it (`StampedIsClosed`).
* After a crash the retried key is evaluated again and may be rejected while the
  first attempt's order is live (`RejectedNeverPlaced` holds without crashes).
* `trading/models/bot.py:16-17` and `75-76` call the in-flight statuses and the position's row
  crash-recoverable. They are only flushed, in the one transaction of the request: a crash
  rolls them back, the bot is in its old status, and an order that executed meanwhile is
  in no book (`Lose`). A retry under the same key finds it and enters it; nothing else
  does. When the target was updated before that retry, it enters the *new* target though
  the old quantity was bought: that is the premise `NoneMistaken` of `BookMatchesTrades`.
* A close that is retried after it succeeded answers 404 instead of replaying.
* A bot left PAUSING or RESUMING (finding `BotsStranded`) stays so: no operation starts from
  these statuses, and its key is refused as in progress. `StuckIsVisible` says how it can be
  told. A status the map lacks leaves a cancel's key PROCESSING as well (`Finalized`).
* An order is judged by several reads of a market that moves, and fills later: it may
  exceed a limit by as much as the prices moved meanwhile (`GateHolds`).
* `stop` closes nothing, and a STOPPED bot may be deleted with its position.
* A simulation snapshot may combine the cash of before a fill with the quantity of
  after it (`SnapshotWithinTick`).
* An asset whose price fails drops out of a snapshot that is stored for good
  (`ValuedAsRead`), where `docs/architecture/portfolio-performance.md` expects a
  transient failure to skip the snapshot.
* The scheduler waits a whole interval after its work, so it drifts; when a tick takes
  more than half an interval (7.5 of the default 15 minutes, dozens of calls that time
  out), two buckets in a row may stay empty though nothing failed (`ScheduleIsKept`).
* Of two racing connects one may leave its key with the other's last four characters
  (`LabelsExplained`).
* Login states that are never presented stay in memory; the sessions of a disabled
  user come back with them when they are enabled again (`NoRevival`).
* The AIC of AR(1) and of AR(2) are computed on different numbers of rows, although
  `model_selection/metrics.py:121-124` rules that out; `SelectedIsBest` compares
  residuals only where the numbers agree. That x and y are the same series is checked
  for the training part of an autoregression only.

## Proofs

tlapm checks the proof modules to the last leaf. A theorem holds for every value of the
constants that satisfies its module's named assumption (`ConstantsAssumption`,
`BotAssumption`, `SignInAssumption`, ...); what it needs beyond that is a hypothesis in
its statement:

| Hypothesis | Meaning | Why it is there |
|---|---|---|
| `Contract` | no transaction is lost, or Binance refuses a client order id it has seen | without either an executed order is forgotten and executed again |
| `~MayCrash` | no transaction is lost between Binance's answer and the commit | the loss forgets what Binance did; the two properties of orders are false with it, and TLC shows how |
| `~MayMisread` | what Binance answers a bot's transition can be read | an exception outside the `try` block leaves the bot in a transition (`BotsStranded`) |
| `~MayFail` | no read of a price or a history fails | what cannot be read counts as nothing (`RiskBlind`) |
| `SingleLoop` | handlers run one at a time, as on the deployed event loop | with threads the switch moves between the gate and the call |
| `Short` | both passes of a tick take half an interval at most | the thread sleeps a whole interval after its work; beyond half of one, TLC finds two empty buckets with nothing failed |
| `~MayUnmap` | Binance's statuses are the ones the map knows | an unknown status leaves a cancel's key PROCESSING |

One assumption about the world is part of a specification, not of a statement: `Near` in
`RiskGate` (see there), for any `DriftNum / DriftDen` of one or more.

**`OrderExecution_proofs`**

* `TypeCorrect`: `Spec => []TypeOK`, for any sets of keys, bodies, requests, readers
  and any number of lots. `TypeOK` is not inductive: `SubmitAcked` needs to know that a
  request placing an order carries an order key. `TypeInv` adds this (`WellPlaced`)
  and that a reader in progress has a key.
* `PlacedAtMostOnce`: `Spec => []AtMostOnce` under `Contract`: no transaction is lost,
  or Binance refuses a client order id it has seen. (Without either the property is
  false: execute, lose the transaction, execute again.) The strengthening is
  `OnceInv`: two requests never own one key (`Exclusive`, what the blocking insert
  gives); a request that owns a key has no committed row for it (`Uncommitted`); and,
  when nothing is lost, an order at Binance is accounted for either by a
  committed row or by a request past its submission (`Accounted`), so that the request
  about to submit is the first. The proof of the step has one lemma for each group of
  actions that can disturb the invariant in the same way (claiming, committing,
  placing, cancelling, aborting, the world).

Two more inductive invariants build on `OnceInv`:

* `AnswerInv`, about answers: a request with an answer holds the one that is or is about
  to be committed under its key (`Recorded`); what is about to be committed is an
  outcome, never PROCESSING, and says that Binance acted only if it did (`Concluding`);
  and on one loop, who is past the gate found the switch as it is now (`Gated`). From it:
  `SameAnswer` (`AnswersAgree`), `OrderKeysFinalized` (create and close keys are final
  with any statuses), `NothingLeftProcessing` (`Finalized`, all keys, under `~MayUnmap`),
  `SwitchIsHonoured` (`SwitchHonoured`, under `SingleLoop`).
* `OnceOnlyImplemented`: `Spec => ImplementsOnceOnly` under `Contract`. The refinement
  mapping reads `OnceOnly`'s executions off Binance, its answers off the committed rows
  and its replies off the requests that have one. One lemma for each group of actions
  says which abstract step it is; only placing an order, a commit and an answer are
  more than a stutter.
* `RowsInv`, about rows: every copy of a row, in the table, in a transaction or with a
  reader, claims only what Binance did (`Claims`), and an uncommitted copy differs from
  what was loaded only as the code changes it (`RequestRow`, `ReaderRow`, `Loaded`): that
  is what makes a write-back of single columns safe. From it: `RowsTellTruth`
  (`RowTellsTruth`, whatever is lost), `NoPlacedOrderIsRejected`
  (`RejectedNeverPlaced`) and `StampMeansClosed` (`StampedIsClosed`), both under
  `~MayCrash`, and `NothingElseRewrites` (`OnlyOvertakenRewrite`).

**`BotLifecycle_proofs`**, for any targets, keys and slots, with crashes and unknown
statuses

* `BookIsRight` (`BookMatchesTrades`), `NothingOversold` (`NeverOversold`),
  `NothingStuckUnseen` (`StuckIsVisible`) and, under `~MayMisread`,
  `ReadableAnswersConclude` (`TransitionsConcluded`, which `BotsStranded` refutes
  without that hypothesis). The inductive `BookInv` says that
  two transactions never own one key and never hold the row together (`KeysOwned`,
  `RowLocked`); what the one open transition owes to the book at each of its points
  (`OwedBy`); that its order is exactly what the committed book still lacks, so that losing
  the transaction leaves the book right (`Outstanding`); that while none is open the book
  of a working bot is exact (`Balanced`); that an order Binance has, if it was not lost,
  belongs to an open transaction or a committed key (`Known`, `Traced`); and that at most
  one such order is open at Binance, and what is held covers it (`Covered`). The parts about
  the book are claimed only as long as no retry was answered DONE from a lost order of
  another quantity (`NoneMistaken`), which is the premise of the property itself.
  `StuckInv` adds that a bot in a transition and an unanswered key come together
  (`Visible`), and that a transaction leaves a bot alone which it found in a transition, and
  writes such a status only where an answer could not be read, with the key that says so
  (`RowVisible`). The proof showed one transition of the model to be too weak: a request
  that was refused because there was no bot could commit the row it had not found, over
  a bot created meanwhile; `Commit` now writes nothing then, as the code does.

**`SignIn_proofs`**, for any users, requests, states, life times and restarts

* Of the limiter itself, for any callers, limit, window and hold-up (`Sane`):
  `LimiterTyped`, `WindowsRespected` (`SpacedOut`), `MemoryBounded` (`FewHits`) and
  `WaitIsEnough` (`RetryAfterHonest`). `LimiterInv` adds to them that stamps and hits
  are at most `MaxDelay` old when they are used, that only hits a window old are popped
  (`PoppedOld`), and which hit the last refusal was about (`ToldOfHead`). At most `Max`
  hits are left after any step, so when one is appended the one `Max` before it has
  been popped, hence is a window old, though hits enter the deque out of order: that is
  `WindowLater`, from which `SpacedOut` follows (`Spacing`). `FarApart`: what comes
  `Max * (j + 1)` requests later comes a window and `j` times a window less the hold-up
  later, by induction on `j` (`Chain`) along `WindowLater`, and because entries are in
  the order of the clock (`InOrder`).
* `OneSession` (`OneSessionPerState`), `EverySessionEarned` (`SessionsEarned`) and
  `NothingRevives` (`NoRevival`). `SignInInv` says where a login state is: in the store,
  with one callback, or behind one session, and never in two of these places (`Once`);
  how old a state in the store may be (`StoreSound`); and what a callback has learnt at
  each point: the state it redeemed was handed out and fresh, the account is linked to
  the user, the user was active since (`Learnt`). It contains `RateLimiter`'s invariant, by
  the step simulation of the limiter inside (`LimiterKept`).
* `LoginsAreLimited` (`LoginsLimited`, all three parts). Two are `RateLimiter`'s. For the
  third, `Ticketed` gives each state in the store, and each request about to make one,
  an admitted request of its own in the limiter's log (two functions, whose existence is
  invariant, `TicketInv`): a state takes over the ticket of the request that made it.
  By `FarApart` a state is out of date before the one is made whose ticket comes
  `Max * (StateTTL \div (Window - MaxDelay) + 1)` later (`TicketsClose`), so the
  tickets of the states that are good lie in an interval of that length, and a state is
  told by its ticket (`FewArePending`).

**`SimulationLedger_proofs`**

* `LedgerTypes`: `Spec => []TypeOK`, for any prices, targets, capital and rates. Here
  `TypeOK` is inductive.
* `OverdraftIsBounded`: `Spec => []OverdraftBounded` when the fee is at most 100 per
  cent (above that a sale costs money). The check before a purchase compares
  N(1 + f + s) with the cash, the fill takes N(1 + s)(1 + f); `PurchaseCost` is that
  difference, the product N f s, and `SaleProceeds` that a sale never takes money.
  With `TypeOK` the property is inductive.
* `SnapshotsAreFinal`: `Spec => SnapshotsFinal`, for any number of intervals, ticks
  and restarts. A tick that was overtaken finds the row of its interval.
* `LedgerIsExplained` (`LedgerExplained`) and `PnlIsTheCashChange` (`PnlIsCashChange`),
  for any number of orders and days. The inductive `LedgerInv` adds that a PAUSED
  simulated bot holds nothing and an ACTIVE one all that its last BUY bought, so that
  every fill `Fits`: nothing is bought while something is held, and all of it is sold.
  `SquaredGrows` is the arithmetic: such an order keeps the walk of every day open
  exactly while something is held, and the sum of all days' P&L equal to the cash gained,
  but for the cost of an open BUY.
* `SnapshotsAreWithinATick` (`SnapshotWithinTick`): `TickInv` says that what a tick has
  read so far is in the books, the cash not after the quantity; a fill that commits
  between the two statements only adds to the books.

  What `Books`, `PairUp` and `PnlUpTo` compute is proved by induction over data. The
  library's induction theorems take an operator for a parameter and cannot be used here;
  `LeastNat` gets the least element of a set of natural numbers from the theorem that
  inclusion is well-founded on finite sets, which is stated over sets, and `Induction`
  follows for any set. `RunExists` then gives every recursion with typed steps a function,
  and `RunsAgree` makes it the only one; `BooksRun`, `PairUpRuns` and `PnlRuns` show that
  the three definitions are met, `BooksGrow` and `PairUpGrows` what one more order does.

**`RiskGate_proofs`**, for any finite set of symbols and any prices, quantities, limits,
filters, window and number of trades

* `GateTypes`: `Spec => []TypeOK`; no balance is ever negative.
* `GateIsHeld` (`GateHolds`), under `~MayFail`: the run `RiskBlind` shows why every read
  has to succeed. Each read is at prices of its own and the order fills at others; what is
  proved is by how much that may carry an account beyond its limits. Amounts, values,
  exposures and totals at two near prices are within the drift of each other
  (`AmountsNear`, `ValuesNear`, `ExposuresNear`, `TotalsNear`, the sum by `SumScales`). An
  order moves its amount between the quote balance and the symbol and leaves the total, at
  the price of its fill, as it was (`OrderMoves`). So a share that was within its limit as
  read is within it by twice the drift as filled (`WithinDrifts`, once for the amount and
  once for the total), the notional and the losses by once (`LossDrifts`), and the number
  of positions exactly (`BuyPositions`). The exposure is the library's sum over a set:
  `SumIsOne` shows that its recursion is met, `SumChanges` that a sum changes by as much as
  one of its terms.
* `WalkIsExact` (`WalkExact`). The inductive `ExactInv` says of each symbol that its walk,
  on every day from today on, finds what is held and explains the gain by the cash, and has
  no gain yet on a later day (`Settled`): that is what makes it survive midnight.
  `TradeBooked` is one trade, `SettledGrows` its effect on the history.
* `AverageIsWithinPaid` (`AverageWithinPaid`), for any history of trades, cut anywhere:
  `ShareLeft` is the arithmetic of a sale, with the quotient rounded, `WalkedBetween` one
  trade, `AverageOfHistory` the induction along the walk.

**`Credentials_proofs`**, for any requests, keys and number of restarts

* `CredentialTypes`, `StoredKeysAreSafe`, `AnswersAreTrue` (`PromisesKept`) and
  `LabelsFollowKeys`. The invariant adds that a request past the verification was
  told "no" (`Verified`), that who is about to commit holds the lock (`LockHeld`), and
  that the row a DELETE has loaded stays while it is on the loop (`RowKept`), because
  only the loop commits: that is why its answer is true.

**`ModelSelection_proofs`**, for any lists of candidates, ratios and series of any length

* `NoPredictionSeesAhead` (`PredictionsLookBack`), about the rows that predictions are
  computed from, not about coefficients: those, and the means a polynomial is centred at,
  come from TRAIN in the code, and a mistake there is not what this theorem excludes. A
  lemma for each kind of model says
  what the rows of its design matrix are made of (`PolyDesign`, `ArDesign`), and one that
  on any series of consecutive positions they look back from their targets
  (`ConsecutiveLookBack`); both parts of the positions are such a series.
* `SelectionIsSound` (`SelectionSound`, all three parts). `SelectionInv` keeps of every
  valid result that its numbers are those of a fit to TRAIN that also predicts
  VALIDATION (`ScoredOn`), of the candidate whose place in the list it has; and after the
  ranking, that each result precedes the later ones. That a better AIC with more
  parameters on as many rows means smaller residuals (`AicOrder`) needs of the
  logarithm only that it does not decrease (`ModelAssumption`).

**`PortfolioHistory_proofs`**, for any finite set of assets, any interval, windows, prices
and number of rows. `HistoryInv` is inductive: types; `Times`, when an attempt is due and
how long one may last; `Filing`, that rows are of past buckets, in order, and a tick files in
the bucket of its balances or a later one; and `Counted`, the sum under way.

* `ValuesAreAsRead` (`ValuedAsRead`). `Split`: as long as no price moves, what the assets
  still to be priced are worth, the missed ones and the priced ones add up to the account
  as it was read. `PriceSplits` and `MissSplits` are one asset going from one part to
  another; the sum over the assets is the library's, in any order (`SumTakesOut`, by
  induction over the subsets of a finite set, `SubsetInduction`).
* `NeverOverdue`: types, one row per bucket, and an attempt every interval, whatever fails
  and however long a tick takes.
* `ScheduleIsKept` (`ScheduleKept`), under `Short`. `Punctual` says how far the clock and
  a tick may be ahead of the last row while nothing has failed. The thread waits a whole
  interval *after* its work, so a tick moves the next one by as much as it lasts, and two of
  them in a row may step over two buckets when each takes more than half an interval.
* `CurveIsOfRows` (`CurveIsRecorded`): `SelectedIs`, by induction along the rows, says that
  selecting keeps order and takes just what is asked for; `LatestExists` that a bucket with
  a row has a latest one, which is why a row may only be left out for a later one.
* `PastStaysSettled` (`PastIsSettled`): `RowsGrow`, a row that is added is later than all
  others; `Settles`, such rows and a later clock change no point of a curve's past.
* `FiguresAreOfCurve` (`FiguresFollow`), for curves of any length. The loop sees each point
  once and remembers a peak and the worst fall. `Known` is its invariant: the peak is the
  highest of the points so far and the fall the steepest of all pairs of them.
  `HigherFallsFurther` is why the highest point suffices, `CrossTransitive` that fractions
  compared by multiplying out are in order, which takes that no divisor is zero.

**Only model-checked, not proved:** liveness (`HandlersFinish`) and `ENABLED`, which are
out of this prover's reach. Every invariant and action property that a passing run checks
is stated by a theorem. Least squares itself (`Fits`, `Possible`) is numpy's: the theorems
hold whatever it answers.

## Plan

Done: `OnceOnly`, `OrderExecution`, `BotLifecycle`, `SimulationLedger`, `RiskGate`,
`RateLimiter`, `SignIn`, `Credentials`, `PortfolioHistory`, `ModelSelection`, and the
theorems above. Left: resting LIMIT orders in `RiskGate`, with the exposure they should
count for.

## Not modelled

* Roles, permissions and their bootstrap: look-ups in seeded rows, sequential.
* The exchange-info cache: one comparison of an age with a time to live. `get` is only
  called by handlers that hold the event loop, so no two calls overlap.
* Encryption: a library behind two functions; its failure is an outcome in
  `Credentials`.
* The settings of simulated orders: one upsert, the last writer wins.
* The formats of Binance's answers, signing, time synchronisation; the origin check;
  configuration, CLI, migrations and deployment: pure I/O or wiring. What they decide
  for concurrency (one worker, one event loop, READ COMMITTED) is in the models.
* The numerics of model selection (least squares, logarithms, RMSE, MAE): floating
  point, out of TLC's reach; they are free choices within what the algebra allows.
* Reads that change no state: market data, audit log, the live portfolio page.
