---------------------------- MODULE BotLifecycle ----------------------------
(***************************************************************************)
(* One bot of trading/bot_service.py: created PAUSED, resumed with a BUY   *)
(* of its target quantity, paused with a SELL of what it holds, stopped,   *)
(* promoted to LIVE, deleted.  Each operation is one request and one       *)
(* transaction (api/bots_routes.py): reserve an idempotency key, lock the  *)
(* bot row (SELECT ... FOR UPDATE), decide, finalize, commit.              *)
(*                                                                         *)
(* The order of a transition is OrderService.create_order, or the          *)
(* simulated fill, seen through its outcome: OrderExecution models how it  *)
(* comes about.  The quantity bought and sold is kept here, because the    *)
(* book of the bot (bot_positions) must agree with it.                     *)
(***************************************************************************)
EXTENDS Integers, FiniteSets

CONSTANTS
    Ids,          \* idempotency keys as the clients choose them
    Slots,        \* requests that can be in progress together
    IdsOf,        \* those used with each operation, by each of them
    Targets,      \* target quantities
    SingleLoop,   \* mutating handlers run one at a time on the event loop
    MayCrash,     \* a transaction may be lost (process or commit failure)
    MayMisread    \* Binance may answer what the code cannot read

Ops == {"create", "update", "resume", "pause", "stop", "live", "delete"}

ASSUME BotAssumption ==
    /\ IdsOf \in [Slots -> [Ops -> SUBSET Ids]]
    /\ \A q, p \in Slots : \A i \in IdsOf[q]["create"], j \in IdsOf[p]["create"] : i = j
    /\ Targets \subseteq Nat \ {0}
    /\ {SingleLoop, MayCrash, MayMisread} \subseteq BOOLEAN

VARIABLES
    bot,      \* the committed bots and bot_positions rows
    idem,     \* committed idempotency_keys rows
    trade,    \* the order Binance has under each transition's inner key
    held,     \* what the bot's orders, real or simulated, bought and not
              \* sold, those of lost transactions left out
    req       \* the requests and their open transactions

vars == <<bot, idem, trade, held, req>>

-----------------------------------------------------------------------------
(* Types *)

\* An outer key is scoped by the operation's endpoint; the inner key of the
\* order is derived from it, so it also names the order.
KeysOf(q) == UNION {{op} \X IdsOf[q][op] : op \in Ops}
Keys == UNION {KeysOf(q) : q \in Slots}
TransitionKeys == {k \in Keys : k[1] \in {"pause", "resume"}}

Status == {"ACTIVE", "PAUSING", "PAUSED", "RESUMING", "STOPPED", "ERROR"}
Quantities == Targets \cup {0}

Bot == [status : Status \cup {"absent"}, mode : {"SIMULATION", "LIVE"},
        current : Quantities, target : Quantities]
NoBot == [status |-> "absent", mode |-> "SIMULATION", current |-> 0,
          target |-> 0]

\* The response recorded for a key, as far as it matters here.
Answers == {"PROCESSING", "REJECTED", "ERROR", "DONE"}

\* lost, for the properties: the transaction that placed it was rolled back,
\* and no retry under its key has found it since.
Trade == [qty : Quantities, exec : Nat, open : BOOLEAN, lost : BOOLEAN]
NoTrade == [qty |-> 0, exec |-> 0, open |-> FALSE, lost |-> FALSE]

Locking == {"order", "reconcile", "commit"}
PCs == {"idle", "reserve", "lock"} \cup Locking

Request == [pc : PCs, key : Keys \cup {<<>>}, arg : Quantities,
            row : Bot, fill : Int, resp : Answers \cup {"absent"}]
Idle == [pc |-> "idle", key |-> <<>>, arg |-> 0, row |-> NoBot, fill |-> 0,
         resp |-> "absent"]

TypeOK ==
    /\ bot \in Bot
    /\ idem \in [Keys -> Answers \cup {"absent"}]
    /\ trade \in [TransitionKeys -> Trade]
    /\ held \in Int
    /\ req \in [Slots -> Request]

Init ==
    /\ bot = NoBot
    /\ idem = [k \in Keys |-> "absent"]
    /\ trade = [k \in TransitionKeys |-> NoTrade]
    /\ held = 0
    /\ req = [q \in Slots |-> Idle]

-----------------------------------------------------------------------------
(* Arrival, reservation, lock *)

InFlight(q) == req[q].pc # "idle"
OpOf(q) == req[q].key[1]
LoopFree == SingleLoop => \A q \in Slots : ~InFlight(q)

Local(q, r) ==
    /\ req' = [req EXCEPT ![q] = r]
    /\ UNCHANGED <<bot, idem, trade, held>>

Receive(q, k, target) ==
    /\ ~InFlight(q) /\ LoopFree
    /\ (target = 0) = (k[1] \notin {"create", "update"})
    /\ Local(q, [Idle EXCEPT !.pc = "reserve", !.key = k, !.arg = target])

\* The reservation is inserted, waiting for a transaction that holds the key.
Reserve(q) ==
    /\ req[q].pc = "reserve"
    /\ \A p \in Slots \ {q} :
          req[p].key = req[q].key => req[p].pc \in {"idle", "reserve"}
    /\ idem[req[q].key] = "absent"
    /\ Local(q, [req[q] EXCEPT !.pc = "lock", !.resp = "PROCESSING"])

\* Waits for the response of a key that is in progress.
MutantRepeat(q) ==
    /\ req[q].pc = "reserve"
    /\ idem[req[q].key] \notin {"absent", "PROCESSING"}
    /\ Local(q, Idle)

\* A recorded response is replayed, a committed PROCESSING is refused; either
\* way nothing else is done.
Repeat(q) ==
    /\ req[q].pc = "reserve"
    /\ idem[req[q].key] # "absent"
    /\ Local(q, Idle)

Decide(q, row, answer) ==
    Local(q, [req[q] EXCEPT !.pc = "commit", !.row = row, !.resp = answer])

CreateBot(q) ==
    /\ req[q].pc = "lock" /\ OpOf(q) = "create"
    /\ Decide(q, [NoBot EXCEPT !.status = "PAUSED", !.target = req[q].arg],
              "DONE")

\* SELECT ... FOR UPDATE returns once no other transaction has the row locked,
\* and then reads what is committed.
MutantLocked(q) == req[q].pc = "lock" /\ OpOf(q) # "create"

Locked(q) ==
    /\ req[q].pc = "lock" /\ OpOf(q) # "create"
    /\ \A p \in Slots \ {q} : req[p].pc \notin Locking

From ==
    [op \in Ops \ {"create"} |->
        CASE op = "pause"  -> {"ACTIVE"}
          [] op = "stop"   -> {"ACTIVE", "PAUSED", "ERROR"}
          [] op = "delete" -> {"PAUSED", "STOPPED"}
          [] OTHER         -> {"PAUSED"}]

\* No such bot, or not in a status the operation starts from.
RefuseStatus(q) ==
    /\ Locked(q) /\ bot.status \notin From[OpOf(q)]
    /\ Decide(q, bot, "REJECTED")

MayStart(q, op) == Locked(q) /\ OpOf(q) = op /\ bot.status \in From[op]

UpdateBot(q) ==
    /\ MayStart(q, "update")
    /\ Decide(q, [bot EXCEPT !.target = req[q].arg], "DONE")

StopBot(q) ==
    /\ MayStart(q, "stop")
    /\ Decide(q, [bot EXCEPT !.status = "STOPPED"], "DONE")

DeleteBot(q) ==
    /\ MayStart(q, "delete")
    /\ Decide(q, NoBot, "DONE")

\* Already LIVE, or no verified credential: refused.
ActivateLive(q) ==
    /\ MayStart(q, "live")
    /\ \/ /\ bot.mode = "SIMULATION"
          /\ Decide(q, [bot EXCEPT !.mode = "LIVE"], "DONE")
       \/ Decide(q, bot, "REJECTED")

-----------------------------------------------------------------------------
(* Pause and resume *)

InProgress == [op \in {"pause", "resume"} |->
                  IF op = "pause" THEN "PAUSING" ELSE "RESUMING"]
Prior == [op \in {"pause", "resume"} |->
             IF op = "pause" THEN "ACTIVE" ELSE "PAUSED"]

StartTransition(q) ==
    /\ \E op \in {"pause", "resume"} : MayStart(q, op)
    /\ Local(q, [req[q] EXCEPT !.pc = "order",
                   !.row = [bot EXCEPT !.status = InProgress[OpOf(q)]]])

Quantity(q) ==
    IF OpOf(q) = "pause" THEN req[q].row.current ELSE req[q].row.target

\* Bought or sold: the sign of a fill.
Signed(op, n) == IF op = "pause" THEN -n ELSE n

Ended(q, status, answer) ==
    [req[q] EXCEPT !.pc = "commit", !.resp = answer, !.row.status = status]

\* The whole quantity was bought or sold.
FilledEnd(q) ==
    IF OpOf(q) = "pause"
    THEN [Ended(q, "PAUSED", "DONE") EXCEPT !.row.current = 0]
    ELSE [Ended(q, "ACTIVE", "DONE") EXCEPT !.row.current = req[q].row.target]

MutantRevertedEnd(q) == [req[q] EXCEPT !.pc = "commit", !.resp = "REJECTED"]

RevertedEnd(q) == Ended(q, Prior[OpOf(q)], "REJECTED")

\* Nobody knows what happened: ERROR, for an operator to resolve.
ErrorEnd(q) == Ended(q, "ERROR", "ERROR")

\* The outcome table of bot_service.py.
Concluded(q, outcome) ==
    CASE outcome \in {"DISABLED", "REJECTED"} -> RevertedEnd(q)
      [] outcome = "FILLED"                   -> FilledEnd(q)
      [] OTHER                                -> ErrorEnd(q)

\* A simulated fill is a row of the same transaction; FAILED is missing market
\* data, RAISED anything unforeseen.
SimulatedOrder(q, outcome) ==
    /\ req[q].pc = "order" /\ req[q].row.mode = "SIMULATION"
    /\ Local(q, [Concluded(q, outcome) EXCEPT
                    !.fill = IF outcome = "FILLED"
                             THEN Signed(OpOf(q), Quantity(q)) ELSE 0])

\* The balance check of a resume ends in a rejection, also when Binance cannot
\* be reached; kill switch, validator and risk engine are inside create_order,
\* whose exceptions the transition catches.
NotSubmitted(q, outcome) ==
    /\ req[q].pc = "order" /\ req[q].row.mode = "LIVE"
    /\ Local(q, Concluded(q, outcome))

\* The balances or the price cannot be read: this check comes before the
\* transition's try block, and the route commits what was flushed.
BalanceRaises(q) ==
    /\ MayMisread /\ req[q].pc = "order" /\ req[q].row.mode = "LIVE"
    /\ OpOf(q) = "resume"
    /\ Local(q, [req[q] EXCEPT !.pc = "commit"])

\* Where a MARKET order of n stands when Binance answers.
NewTrades(n) ==
    {t \in [qty : {n}, exec : 0..n, open : BOOLEAN, lost : {FALSE}] :
        t.open => t.exec < n}

StatusOf(t) ==
    CASE t.exec = t.qty           -> "FILLED"
      [] t.exec < t.qty /\ t.open -> "OPEN"
      [] OTHER                    -> "EXPIRED"

\* The row after the order call, or the wait for the one reconciling read.
AfterOrder(q, outcome) ==
    IF outcome = "OPEN" THEN [req[q] EXCEPT !.pc = "reconcile"]
    ELSE Concluded(q, outcome)

\* The order Binance has under k as the transition q finds it: one that a lost
\* transaction had placed is accounted for again, if it is of the quantity that
\* is now to be traded.
Found(q, k) ==
    [trade[k] EXCEPT !.lost = @ /\ trade[k].qty # Quantity(q)]

\* What an order under k counts for in held.
Counted(k, t) == IF t.lost THEN 0 ELSE Signed(k[1], t.exec)

\* The refusal of a used client order id is taken for a rejection.
MutantOrderOutcomes(k, t) ==
    IF trade[k] # NoTrade THEN {"REJECTED"}
    ELSE (IF t = NoTrade THEN {} ELSE {StatusOf(t)}) \cup {"FAILED"}

\* What the order call may answer when Binance has t under k: confirmed, not
\* confirmed, or in a status the map lacks.
OrderOutcomes(k, t) ==
    (IF t = NoTrade THEN {} ELSE {StatusOf(t)}) \cup {"FAILED"}
        \cup (IF MayMisread /\ t # NoTrade THEN {"RAISED"} ELSE {})

\* The order call of a LIVE bot; t is the order Binance has afterwards.  The
\* client order id was used before only if a transaction was lost; then
\* Binance refuses it and the confirmation finds the old order.
Submitted(q) ==
    LET k == req[q].key IN
    /\ req[q].pc = "order" /\ req[q].row.mode = "LIVE"
    /\ \E t \in IF trade[k] = NoTrade
               THEN NewTrades(Quantity(q)) \cup {NoTrade} ELSE {Found(q, k)} :
          /\ \E outcome \in OrderOutcomes(k, t) :
                req' = [req EXCEPT ![q] = AfterOrder(q, outcome)]
          /\ trade' = [trade EXCEPT ![k] = t]
          /\ held' = held + Counted(k, t) - Counted(k, trade[k])
    /\ UNCHANGED <<bot, idem>>

\* _reconcile_once: a single read, whatever it says.
Reconcile(q) ==
    /\ req[q].pc = "reconcile"
    /\ \E outcome \in {"OPEN", StatusOf(trade[req[q].key])} :
          Local(q, Concluded(q, outcome))

\* The payload's status is unknown: the exception leaves _transition, and the
\* route commits what was flushed.
ReconcileRaises(q) ==
    /\ MayMisread /\ req[q].pc = "reconcile"
    /\ Local(q, [req[q] EXCEPT !.pc = "commit"])

-----------------------------------------------------------------------------
(* The end of the transaction, and the rest of the world *)

\* A request that found no bot writes none.
Commit(q) ==
    /\ req[q].pc = "commit"
    /\ idem' = [idem EXCEPT ![req[q].key] = req[q].resp]
    /\ bot' = IF req[q].row = NoBot /\ req[q].resp = "REJECTED" THEN bot
              ELSE req[q].row
    /\ held' = held + req[q].fill
    /\ req' = [req EXCEPT ![q] = Idle]
    /\ UNCHANGED trade

Lose(k) == IF trade[k] = NoTrade THEN NoTrade ELSE [trade[k] EXCEPT !.lost = TRUE]

\* The rows are rolled back; an order that Binance has stays, and what it
\* executes is in nobody's book.
Abort(q) ==
    LET k == req[q].key IN
    /\ MayCrash /\ InFlight(q)
    /\ IF k \in TransitionKeys /\ req[q].pc \in {"reconcile", "commit"}
       THEN /\ trade' = [trade EXCEPT ![k] = Lose(k)]
            /\ held' = held - Counted(k, trade[k])
       ELSE UNCHANGED <<trade, held>>
    /\ req' = [req EXCEPT ![q] = Idle]
    /\ UNCHANGED <<bot, idem>>

\* An order left open at Binance executes further or ends.
Execute(k) ==
    /\ trade[k].open
    /\ \E n \in NewTrades(trade[k].qty) :
          LET t == [n EXCEPT !.lost = trade[k].lost] IN
          /\ t.exec >= trade[k].exec
          /\ trade' = [trade EXCEPT ![k] = t]
          /\ held' = held + Counted(k, t) - Counted(k, trade[k])
    /\ UNCHANGED <<bot, idem, req>>

Transition(q) ==
    \/ StartTransition(q)
    \/ \E o \in {"DISABLED", "REJECTED", "FAILED", "FILLED", "RAISED"} :
          SimulatedOrder(q, o)
    \/ \E o \in {"DISABLED", "REJECTED", "RAISED"} : NotSubmitted(q, o)
    \/ BalanceRaises(q)
    \/ Submitted(q) \/ Reconcile(q) \/ ReconcileRaises(q)

Handle(q) ==
    \/ Reserve(q) \/ Repeat(q)
    \/ CreateBot(q) \/ RefuseStatus(q) \/ UpdateBot(q) \/ StopBot(q)
    \/ DeleteBot(q) \/ ActivateLive(q) \/ Transition(q) \/ Commit(q)

Next ==
    \/ \E q \in Slots :
          \/ \E k \in KeysOf(q), target \in Quantities : Receive(q, k, target)
          \/ Handle(q) \/ Abort(q)
    \/ \E k \in TransitionKeys : Execute(k)

Spec == Init /\ [][Next]_vars

\* A handler that has started keeps running.  It may wait for a key or for the
\* row again and again while others lose their transactions; PostgreSQL queues
\* those who wait, so one whose turn keeps coming is served.
FairSpec == Spec /\ \A q \in Slots : SF_vars(Handle(q))

-----------------------------------------------------------------------------
(* Safety *)

\* No transition has called Binance and not yet committed.
Settled == \A q \in Slots : req[q].pc \notin {"reconcile", "commit"}

\* No retry was answered DONE from a lost order of another quantity than the one
\* it was to trade.
NoneMistaken == \A k \in TransitionKeys : trade[k].lost => idem[k] # "DONE"

\* The book of a bot in a working status says exactly what its orders left it
\* with, and a paused bot holds nothing: no interleaving of differently keyed
\* pauses and resumes and no ambiguous outcome lets the two drift apart.  A
\* crash only leaves out the order whose transaction it took, until a retry
\* under the same key finds it and enters it once.
BookMatchesTrades ==
    Settled /\ NoneMistaken /\ bot.status \in {"ACTIVE", "PAUSED"}
    => /\ bot.current = held
       /\ bot.status = "PAUSED" => held = 0

\* The orders of a bot, those of lost transactions left out, never sell what
\* they did not buy, not even while a transition is open (and what is recorded
\* of the bot is well typed).
NeverOversold == TypeOK /\ (NoneMistaken => held >= 0)

Unanswered == {k \in TransitionKeys : idem[k] = "PROCESSING"}

\* A bot stays PAUSING or RESUMING only where Binance answered what the code
\* cannot read, never by a crash, and it can be told from the keys: there is a
\* pause, or a resume, that was never answered exactly while the bot is left in
\* the middle of one.
StuckIsVisible ==
    /\ bot.status \in {"PAUSING", "RESUMING"} => MayMisread /\ Unanswered # {}
    /\ \A k \in Unanswered : bot.status = InProgress[k[1]]

\* What the outcome table of bot_service.py ("any other exception -> ERROR") and
\* the comment of the route ("already recorded a FAILED-shaped state, audit row,
\* and finalized idempotency") say of every transition: it ends in a stable
\* status, and its key is answered.
TransitionsConcluded ==
    bot.status \notin {"PAUSING", "RESUMING"} /\ Unanswered = {}

(* Liveness *)

\* Every request ends: again and again each slot is free, the lock, the key and
\* the one reconciling read never hold a handler for ever.
HandlersFinish == \A q \in Slots : []<>~InFlight(q)

=============================================================================
