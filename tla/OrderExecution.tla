--------------------------- MODULE OrderExecution ---------------------------
(***************************************************************************)
(* How one user's orders are placed, cancelled and refreshed:              *)
(*   - trading/order_service.py   create_order, close_position,            *)
(*     cancel_order, the confirmation after a failed submission;           *)
(*   - trading/idempotency.py     reserve and finalize;                    *)
(*   - trading/kill_switch.py     is_trading_permitted;                    *)
(*   - trading/reconciliation.py  Binance payload -> order row;            *)
(*   - api/trading_routes.py      the transaction around each handler, and *)
(*     the refresh done by the read routes (reconcile-on-read).            *)
(*                                                                         *)
(* A request runs in one database transaction, committed by the route when *)
(* the service returns or raises.  Other requests see its rows only from   *)
(* Commit on, so everything between Claim and Commit lives in req[q]; the  *)
(* calls to Binance are visible at once and survive a rollback.            *)
(*                                                                         *)
(* An order is named by its order key: the client order id is derived from *)
(* (user, endpoint, idempotency key), so it is the identity of the row and *)
(* of the order at Binance alike.                                          *)
(***************************************************************************)
EXTENDS Integers, FiniteSets

CONSTANTS
    OrderKeys,       \* (user, endpoint, key) triples of POST /orders and of
                     \* POST /positions/{symbol}/close
    CloseKeys,       \* those of them under the close endpoint
    CancelKeys,      \* (user, endpoint, key) triples of the cancel endpoint
    Bodies,          \* request bodies, as told apart by their hash
    Requests,        \* HTTP requests to the three mutating routes
    Readers,         \* GET requests that refresh an order
    Lots,            \* the quantity of an order, in units a fill can take
    SingleLoop,      \* mutating handlers run one at a time on the event loop
    MayCrash,        \* a transaction may be lost (process or commit failure)
    MayUnmap,        \* Binance may answer with a status the map lacks
    ExchangeDedups   \* Binance refuses a client order id it has seen before

ASSUME ConstantsAssumption ==
    /\ CloseKeys \subseteq OrderKeys
    /\ OrderKeys \cap CancelKeys = {}
    /\ Bodies \cap OrderKeys = {}
    /\ {"none"} \cap (OrderKeys \cup CancelKeys \cup Bodies) = {}
    /\ Lots \in Nat \ {0}
    /\ {SingleLoop, MayCrash, MayUnmap, ExchangeDedups} \subseteq BOOLEAN

VARIABLES
    idem,       \* committed idempotency_keys rows
    orders,     \* committed orders rows
    enabled,    \* committed outcome of is_trading_permitted
    exch,       \* the orders as Binance has them
    req,        \* the requests and their open transactions
    rd          \* the refreshing reads in progress

vars == <<idem, orders, enabled, exch, req, rd>>

-----------------------------------------------------------------------------
(* Types *)

Keys == OrderKeys \cup CancelKeys
Payloads == Bodies \cup OrderKeys   \* a cancel's body is the order it names

OrderStatus == {"PENDING", "NEW", "PARTIALLY_FILLED", "FILLED", "CANCELED",
                "PENDING_CANCEL", "REJECTED", "EXPIRED", "FAILED"}
TerminalStatuses == {"FILLED", "CANCELED", "REJECTED", "EXPIRED", "FAILED"}
CancelableStatuses == {"NEW", "PARTIALLY_FILLED"}

BinanceStatus == {"NEW", "PARTIALLY_FILLED", "FILLED", "CANCELED",
                  "PENDING_CANCEL", "REJECTED", "EXPIRED", "EXPIRED_IN_MATCH"}
OpenAtBinance == {"NEW", "PARTIALLY_FILLED"}

Responses == {"PROCESSING"} \cup OrderStatus
NoRow == [body |-> "none", resp |-> "absent"]
IdemRow == [body : Payloads \cup {"none"}, resp : Responses \cup {"absent"}]

OrderRow == [status : OrderStatus \cup {"absent"}, exec : 0..Lots,
             stamped : BOOLEAN]
AbsentRow == [status |-> "absent", exec |-> 0, stamped |-> FALSE]

ExchOrder == [status : BinanceStatus \cup {"absent"}, exec : 0..Lots,
              accepted : Nat]
Unplaced == [status |-> "absent", exec |-> 0, accepted |-> 0]

Owning == {"gate", "validate", "submit", "confirm", "find", "cancel", "commit"}
PCs == {"idle", "position", "reserve", "done"} \cup Owning
Outcomes == {"none", "ok", "replayed", "disabled", "not_found",
             "not_cancelable", "conflict", "in_progress", "raised",
             "no_position", "unavailable", "aborted"}

Request == [pc : PCs, key : Keys \cup {"none"}, body : Payloads \cup {"none"},
            resp : Responses \cup {"absent"}, base : OrderRow, row : OrderRow,
            out : Outcomes]
NotSent == [pc |-> "idle", key |-> "none", body |-> "none", resp |-> "absent",
            base |-> AbsentRow, row |-> AbsentRow, out |-> "none"]

Reader == [pc : {"idle", "loaded", "fetched"}, key : OrderKeys \cup {"none"},
           base : OrderRow, row : OrderRow]
NotReading == [pc |-> "idle", key |-> "none", base |-> AbsentRow,
               row |-> AbsentRow]

TypeOK ==
    /\ idem \in [Keys -> IdemRow]
    /\ orders \in [OrderKeys -> OrderRow]
    /\ enabled \in BOOLEAN
    /\ exch \in [OrderKeys -> ExchOrder]
    /\ req \in [Requests -> Request]
    /\ rd \in [Readers -> Reader]

Init ==
    /\ idem = [k \in Keys |-> NoRow]
    /\ orders = [k \in OrderKeys |-> AbsentRow]
    /\ enabled \in BOOLEAN
    /\ exch = [k \in OrderKeys |-> Unplaced]
    /\ req = [q \in Requests |-> NotSent]
    /\ rd = [r \in Readers |-> NotReading]

-----------------------------------------------------------------------------
(* Reconciliation: a Binance payload mapped onto an order row *)

MutantRawStatus == [s \in BinanceStatus |-> s]

MutantBinanceStatusMap ==
    [s \in BinanceStatus |-> IF s = "EXPIRED_IN_MATCH" THEN "FILLED" ELSE s]

BinanceStatusMap ==
    [s \in BinanceStatus |-> IF s = "EXPIRED_IN_MATCH" THEN "EXPIRED" ELSE s]

\* What a call about order x may report; a status outside the domain of the
\* map makes map_binance_status raise.
Answers(x) ==
    {[status |-> x.status, exec |-> x.exec]}
        \cup IF MayUnmap THEN {[status |-> "UNMAPPED", exec |-> x.exec]}
             ELSE {}

Mapped(a) == a.status \in DOMAIN BinanceStatusMap

Reconciled(row, a) ==
    [row EXCEPT !.status = BinanceStatusMap[a.status], !.exec = a.exec]

\* Plausible bug: every reconciled row is stamped.
MutantStamped(row) == [row EXCEPT !.stamped = TRUE]

\* terminal_at is set when the reconciled status is terminal.
Stamped(row) ==
    [row EXCEPT !.stamped = @ \/ row.status \in TerminalStatuses]

Failed(row) == [row EXCEPT !.status = "FAILED", !.stamped = TRUE]
Refused(row) == [row EXCEPT !.status = "REJECTED", !.stamped = TRUE]

\* SQLAlchemy's UPDATE carries only the columns that differ from the values
\* the session loaded; the others keep what is committed by then.
Flush(committed, base, row) ==
    [status  |-> IF row.status # base.status THEN row.status
                 ELSE committed.status,
     exec    |-> IF row.exec # base.exec THEN row.exec ELSE committed.exec,
     stamped |-> IF row.stamped # base.stamped THEN row.stamped
                 ELSE committed.stamped]

-----------------------------------------------------------------------------
(* The requests: arrival and reservation *)

InFlight(q) == req[q].pc \notin {"idle", "done"}

\* The event loop serves the next mutating handler only when none is running.
LoopFree == SingleLoop => \A q \in Requests : ~InFlight(q)

\* The uncommitted idempotency row of an open transaction.
Holds(q, k) == req[q].key = k /\ req[q].pc \in Owning

OrderOf(q) == IF req[q].key \in OrderKeys THEN req[q].key ELSE req[q].body

Finish(q, outcome) ==
    /\ req' = [req EXCEPT ![q].pc = "done", ![q].out = outcome]
    /\ UNCHANGED <<idem, orders, enabled, exch, rd>>

Local(q, r) ==
    /\ req' = [req EXCEPT ![q] = r]
    /\ UNCHANGED <<idem, orders, enabled, exch, rd>>

ReceiveCreate(q, k, b) ==
    /\ req[q].pc = "idle" /\ LoopFree
    /\ Local(q, [req[q] EXCEPT !.pc = "reserve", !.key = k, !.body = b])

ReceiveClose(q, k) ==
    /\ req[q].pc = "idle" /\ LoopFree
    /\ Local(q, [req[q] EXCEPT !.pc = "position", !.key = k])

ReceiveCancel(q, k, target) ==
    /\ req[q].pc = "idle" /\ LoopFree
    /\ Local(q, [req[q] EXCEPT !.pc = "reserve", !.key = k, !.body = target])

\* close_position reads the position first: its quantity is the body.
FindPosition(q, b) ==
    /\ req[q].pc = "position"
    /\ Local(q, [req[q] EXCEPT !.pc = "reserve", !.body = b])

NoPosition(q) ==
    /\ req[q].pc = "position"
    /\ \E outcome \in {"no_position", "unavailable"} : Finish(q, outcome)

\* The insert waits while another open transaction holds the same key.
MutantMayInsert(q) == req[q].pc = "reserve"

MayInsert(q) ==
    /\ req[q].pc = "reserve"
    /\ \A p \in Requests \ {q} : ~Holds(p, req[q].key)

Claim(q) ==
    /\ MayInsert(q)
    /\ idem[req[q].key] = NoRow
    /\ Local(q, [req[q] EXCEPT !.pc = "gate", !.resp = "PROCESSING"])

RefuseInProgress(q) ==
    /\ MayInsert(q)
    /\ idem[req[q].key].resp = "PROCESSING"
    /\ Finish(q, "in_progress")

RefuseConflict(q) ==
    /\ MayInsert(q)
    /\ idem[req[q].key].resp \notin {"absent", "PROCESSING"}
    /\ idem[req[q].key].body # req[q].body
    /\ Finish(q, "conflict")

MutantReplay(q) ==
    /\ MayInsert(q)
    /\ idem[req[q].key].resp \notin {"absent", "PROCESSING"}
    /\ Local(q, [req[q] EXCEPT !.pc = "done", !.out = "replayed",
                               !.resp = idem[req[q].key].resp])

Replay(q) ==
    /\ MayInsert(q)
    /\ idem[req[q].key].resp \notin {"absent", "PROCESSING"}
    /\ idem[req[q].key].body = req[q].body
    /\ Local(q, [req[q] EXCEPT !.pc = "done", !.out = "replayed",
                               !.resp = idem[req[q].key].resp])

-----------------------------------------------------------------------------
(* The kill switch *)

MutantPermit(q) ==
    /\ req[q].pc = "gate"
    /\ Local(q, IF req[q].key \in OrderKeys
                THEN [req[q] EXCEPT !.pc = "validate", !.row.status = "PENDING"]
                ELSE [req[q] EXCEPT !.pc = "find"])

Permit(q) ==
    /\ req[q].pc = "gate" /\ enabled
    /\ Local(q, IF req[q].key \in OrderKeys
                THEN [req[q] EXCEPT !.pc = "validate", !.row.status = "PENDING"]
                ELSE [req[q] EXCEPT !.pc = "find"])

Deny(q) ==
    /\ req[q].pc = "gate" /\ ~enabled
    /\ Local(q, [req[q] EXCEPT !.pc = "commit", !.out = "disabled",
                               !.resp = "REJECTED"])

-----------------------------------------------------------------------------
(* Placing an order *)

\* The response is finalized with the status of the row.
Conclude(q, row, outcome) ==
    [req[q] EXCEPT !.pc = "commit", !.row = row, !.resp = row.status,
                   !.out = outcome]

\* Validator and risk engine, with the Binance reads they need.
Approve(q) ==
    /\ req[q].pc = "validate"
    /\ Local(q, [req[q] EXCEPT !.pc = "submit"])

Reject(q) ==
    /\ req[q].pc = "validate"
    /\ Local(q, Conclude(q, Refused(req[q].row), "ok"))

\* _create_and_execute's safety net around everything after the flush.
MutantInternalError(q) ==
    /\ req[q].pc = "validate"
    /\ Local(q, [req[q] EXCEPT !.pc = "commit", !.row = Failed(req[q].row),
                               !.out = "raised"])

InternalError(q) ==
    /\ req[q].pc = "validate"
    /\ Local(q, Conclude(q, Failed(req[q].row), "raised"))

\* The outcome of the order call at Binance: where a new order stands when it
\* answers.
FirstState ==
    {o \in [status : {"NEW", "PARTIALLY_FILLED", "FILLED", "REJECTED",
                      "EXPIRED", "EXPIRED_IN_MATCH"}, exec : 0..Lots] :
        /\ o.status \in {"NEW", "REJECTED"} => o.exec = 0
        /\ o.status = "PARTIALLY_FILLED" => o.exec \in 1..(Lots - 1)
        /\ (o.status = "FILLED") = (o.exec = Lots)}

\* The client order id is the same for every attempt under the key.
WouldAccept(k) == exch[k].accepted = 0 \/ ~ExchangeDedups

Placed(k, o) ==
    [status |-> o.status, exec |-> o.exec, accepted |-> exch[k].accepted + 1]

\* The row and the response after an order payload; an unmapped status raises
\* before the row is touched and ends in the safety net.
AfterPayload(q, a) ==
    IF Mapped(a) THEN Conclude(q, Stamped(Reconciled(req[q].row, a)), "ok")
    ELSE Conclude(q, Failed(req[q].row), "raised")

SubmitAcked(q, o) ==
    /\ req[q].pc = "submit" /\ WouldAccept(req[q].key)
    /\ exch' = [exch EXCEPT ![req[q].key] = Placed(req[q].key, o)]
    /\ \E a \in Answers(Placed(req[q].key, o)) :
          req' = [req EXCEPT ![q] = AfterPayload(q, a)]
    /\ UNCHANGED <<idem, orders, enabled, rd>>

\* Binance takes the order, the caller gets an error (time-out, bad answer).
SubmitLost(q, o) ==
    /\ req[q].pc = "submit" /\ WouldAccept(req[q].key)
    /\ exch' = [exch EXCEPT ![req[q].key] = Placed(req[q].key, o)]
    /\ req' = [req EXCEPT ![q].pc = "confirm"]
    /\ UNCHANGED <<idem, orders, enabled, rd>>

\* Nothing reached Binance, or it refused the order.
SubmitRefused(q) ==
    /\ req[q].pc = "submit"
    /\ Local(q, [req[q] EXCEPT !.pc = "confirm"])

\* _handle_ambiguous_create_failure: one get_order, never a second create.
ConfirmFound(q) ==
    /\ req[q].pc = "confirm" /\ exch[req[q].key].status # "absent"
    /\ \E a \in Answers(exch[req[q].key]) : Local(q, AfterPayload(q, a))

\* Binance has no such order, or the look-up fails as well.
MutantConfirmFailedRejects(q) ==
    /\ req[q].pc = "confirm"
    /\ Local(q, Conclude(q, Refused(req[q].row), "ok"))

MutantConfirmFailedRetries(q) ==
    /\ req[q].pc = "confirm"
    /\ Local(q, [req[q] EXCEPT !.pc = "submit"])

ConfirmFailed(q) ==
    /\ req[q].pc = "confirm"
    /\ Local(q, Conclude(q, Failed(req[q].row), "ok"))

-----------------------------------------------------------------------------
(* Cancelling an order *)

FindMissing(q) ==
    /\ req[q].pc = "find" /\ orders[OrderOf(q)].status = "absent"
    /\ Local(q, [req[q] EXCEPT !.pc = "commit", !.out = "not_found",
                               !.resp = "REJECTED"])

FindClosed(q) ==
    /\ req[q].pc = "find"
    /\ orders[OrderOf(q)].status \notin CancelableStatuses \cup {"absent"}
    /\ Local(q, [req[q] EXCEPT !.pc = "commit", !.out = "not_cancelable",
                               !.resp = "REJECTED"])

FindOpen(q) ==
    /\ req[q].pc = "find" /\ orders[OrderOf(q)].status \in CancelableStatuses
    /\ Local(q, [req[q] EXCEPT !.pc = "cancel", !.base = orders[OrderOf(q)],
                               !.row = orders[OrderOf(q)]])

\* Binance cancels an order still open there, now or shortly.
CancelledAs(k, s) ==
    /\ exch[k].status \in OpenAtBinance
    /\ exch' = [exch EXCEPT ![k].status = s]

\* terminal_at is set whatever status came back; an unmapped one escapes
\* cancel_order before finalize.
CancelAcked(q, s) ==
    /\ req[q].pc = "cancel" /\ CancelledAs(OrderOf(q), s)
    /\ \E a \in Answers([exch[OrderOf(q)] EXCEPT !.status = s]) :
          req' = [req EXCEPT ![q] =
            IF Mapped(a)
            THEN Conclude(q, [Reconciled(@.row, a) EXCEPT !.stamped = TRUE],
                          "ok")
            ELSE [@ EXCEPT !.pc = "commit", !.out = "raised"]]
    /\ UNCHANGED <<idem, orders, enabled, rd>>

CancelErrorResponse(q) ==
    [req[q] EXCEPT !.pc = "commit", !.resp = "FAILED", !.out = "ok"]

CancelLost(q, s) ==
    /\ req[q].pc = "cancel" /\ CancelledAs(OrderOf(q), s)
    /\ req' = [req EXCEPT ![q] = CancelErrorResponse(q)]
    /\ UNCHANGED <<idem, orders, enabled, rd>>

CancelRefused(q) ==
    /\ req[q].pc = "cancel"
    /\ Local(q, CancelErrorResponse(q))

-----------------------------------------------------------------------------
(* The end of the transaction *)

MutantCommit(q) ==
    /\ req[q].pc = "commit"
    /\ orders' = [orders EXCEPT ![OrderOf(q)] =
                     Flush(@, req[q].base, req[q].row)]
    /\ req' = [req EXCEPT ![q].pc = "done"]
    /\ UNCHANGED <<idem, enabled, exch, rd>>

Commit(q) ==
    /\ req[q].pc = "commit"
    /\ idem' = [idem EXCEPT ![req[q].key] =
                   [body |-> req[q].body, resp |-> req[q].resp]]
    /\ orders' = [orders EXCEPT ![OrderOf(q)] =
                     Flush(@, req[q].base, req[q].row)]
    /\ req' = [req EXCEPT ![q].pc = "done"]
    /\ UNCHANGED <<enabled, exch, rd>>

\* The process dies or the commit fails: every row of the transaction is
\* gone, what Binance did is not.
Abort(q) ==
    /\ MayCrash /\ InFlight(q)
    /\ Finish(q, "aborted")

AbortRead(r) ==
    /\ MayCrash /\ rd[r].pc # "idle"
    /\ rd' = [rd EXCEPT ![r] = NotReading]
    /\ UNCHANGED <<idem, orders, enabled, exch, req>>

-----------------------------------------------------------------------------
(* Reconcile-on-read, in the thread pool *)

\* Plausible bug: closed orders are refreshed, too.
MutantLoad(r, k) ==
    /\ rd[r].pc = "idle" /\ LoopFree
    /\ orders[k].status # "absent"
    /\ rd' = [rd EXCEPT ![r] = [pc |-> "loaded", key |-> k,
                                base |-> orders[k], row |-> orders[k]]]
    /\ UNCHANGED <<idem, orders, enabled, exch, req>>

\* The rows are selected on the event loop, before the thread is started.
Load(r, k) ==
    /\ rd[r].pc = "idle" /\ LoopFree
    /\ orders[k].status \notin TerminalStatuses \cup {"absent"}
    /\ rd' = [rd EXCEPT ![r] = [pc |-> "loaded", key |-> k,
                                base |-> orders[k], row |-> orders[k]]]
    /\ UNCHANGED <<idem, orders, enabled, exch, req>>

Fetch(r) ==
    /\ rd[r].pc = "loaded" /\ exch[rd[r].key].status # "absent"
    /\ \E a \in Answers(exch[rd[r].key]) :
          /\ Mapped(a)
          /\ Reconciled(rd[r].base, a) # rd[r].base
          /\ rd' = [rd EXCEPT ![r].pc = "fetched",
                              ![r].row = Stamped(Reconciled(@, a))]
    /\ UNCHANGED <<idem, orders, enabled, exch, req>>

\* A failed look-up, an unmapped status (the read fails), or nothing new.
ReadEnds(r) ==
    /\ rd[r].pc = "loaded"
    /\ rd' = [rd EXCEPT ![r] = NotReading]
    /\ UNCHANGED <<idem, orders, enabled, exch, req>>

Write(r) ==
    /\ rd[r].pc = "fetched"
    /\ orders' = [orders EXCEPT ![rd[r].key] =
                     Flush(@, rd[r].base, rd[r].row)]
    /\ rd' = [rd EXCEPT ![r] = NotReading]
    /\ UNCHANGED <<idem, enabled, exch, req>>

-----------------------------------------------------------------------------
(* The rest of the world *)

\* PUT /settings/trading-switch, on the loop; the operator's TRADING_ENABLED
\* changes with a restart.
SetSwitch(on) ==
    /\ LoopFree
    /\ enabled' = on
    /\ UNCHANGED <<idem, orders, exch, req, rd>>

Fill(k) ==
    /\ exch[k].status \in OpenAtBinance \cup {"PENDING_CANCEL"}
    /\ exch[k].exec < Lots
    /\ exch' = [exch EXCEPT ![k].exec = @ + 1,
                            ![k].status = IF exch[k].exec + 1 = Lots
                                          THEN "FILLED"
                                          ELSE IF @ = "NEW"
                                          THEN "PARTIALLY_FILLED" ELSE @]
    /\ UNCHANGED <<idem, orders, enabled, req, rd>>

\* Time in force or self-trade prevention ends the order.
Expire(k, s) ==
    /\ exch[k].status \in OpenAtBinance
    /\ exch' = [exch EXCEPT ![k].status = s]
    /\ UNCHANGED <<idem, orders, enabled, req, rd>>

FinishCancel(k) ==
    /\ exch[k].status = "PENDING_CANCEL"
    /\ exch' = [exch EXCEPT ![k].status = "CANCELED"]
    /\ UNCHANGED <<idem, orders, enabled, req, rd>>

-----------------------------------------------------------------------------

Receive(q) ==
    \/ \E k \in OrderKeys \ CloseKeys, b \in Bodies : ReceiveCreate(q, k, b)
    \/ \E k \in CloseKeys : ReceiveClose(q, k)
    \/ \E k \in CancelKeys, t \in OrderKeys : ReceiveCancel(q, k, t)

Reserve(q) ==
    Claim(q) \/ RefuseInProgress(q) \/ RefuseConflict(q) \/ Replay(q)

Place(q) ==
    \/ Approve(q) \/ Reject(q) \/ InternalError(q)
    \/ \E o \in FirstState : SubmitAcked(q, o) \/ SubmitLost(q, o)
    \/ SubmitRefused(q) \/ ConfirmFound(q) \/ ConfirmFailed(q)

Cancel(q) ==
    \/ FindMissing(q) \/ FindClosed(q) \/ FindOpen(q)
    \/ \E s \in {"CANCELED", "PENDING_CANCEL"} :
          CancelAcked(q, s) \/ CancelLost(q, s)
    \/ CancelRefused(q)

\* Every step the handler of q takes once it has started.
Handle(q) ==
    \/ \E b \in Bodies : FindPosition(q, b)
    \/ NoPosition(q)
    \/ Reserve(q) \/ Permit(q) \/ Deny(q) \/ Place(q) \/ Cancel(q)
    \/ Commit(q)

Read(r) == Fetch(r) \/ ReadEnds(r) \/ Write(r)

Exchange(k) ==
    \/ Fill(k) \/ FinishCancel(k)
    \/ \E s \in {"EXPIRED", "EXPIRED_IN_MATCH"} : Expire(k, s)

Next ==
    \/ \E q \in Requests : Receive(q) \/ Handle(q) \/ Abort(q)
    \/ \E r \in Readers :
          Read(r) \/ AbortRead(r) \/ \E k \in OrderKeys : Load(r, k)
    \/ \E k \in OrderKeys : Exchange(k)
    \/ \E on \in BOOLEAN : SetSwitch(on)

Spec == Init /\ [][Next]_vars

\* A handler that has started keeps running: the loop or its thread schedules
\* it, every HTTP call has a time-out, and a blocked insert is resumed when
\* the other transaction ends.  Nothing makes a client send a request, the
\* operator move the switch or Binance fill an order.
FairSpec ==
    /\ Spec
    /\ \A q \in Requests : WF_vars(Handle(q))
    /\ \A r \in Readers : WF_vars(Read(r))

-----------------------------------------------------------------------------
(* Safety *)

\* Binance takes at most one order per order key, however requests carrying
\* the key interleave, are retried or lose their transaction.
AtMostOnce == \A k \in OrderKeys : exch[k].accepted <= 1

\* A committed row that reports an outcome reached at Binance reports the one
\* Binance has, and never more than was executed there: neither a stale
\* refresh nor a cancel racing a fill invents an outcome.
RowTellsTruth ==
    \A k \in OrderKeys :
        /\ orders[k].status \in {"FILLED", "CANCELED"} =>
              exch[k].status = orders[k].status
        /\ orders[k].status = "EXPIRED" =>
              exch[k].status \in {"EXPIRED", "EXPIRED_IN_MATCH"}
        /\ orders[k].exec <= exch[k].exec

\* An order Hermes reports as rejected is not at Binance, unless Binance
\* itself rejected it.
RejectedNeverPlaced ==
    \A k \in OrderKeys :
        orders[k].status = "REJECTED" => exch[k].status \in {"absent", "REJECTED"}

Answered(q) == req[q].pc = "done" /\ req[q].out \in {"ok", "replayed"}

\* Two requests answered under one key had the same body and received the
\* same answer, whichever of them executed it.
AnswersAgree ==
    \A p, q \in Requests :
        Answered(p) /\ Answered(q) /\ req[p].key = req[q].key =>
            req[p].body = req[q].body /\ req[p].resp = req[q].resp

\* No reservation is committed without its response: a key left PROCESSING
\* would refuse every retry for ever (finalize's docstring).
Finalized == \A k \in Keys : idem[k].resp # "PROCESSING"

\* No order reaches Binance, and none is cancelled there by Hermes, in a step
\* taken while trading is off: the gate is checked long before the call, and
\* only the event loop keeps the switch from moving in between.
SwitchHonoured ==
    [][ (\E k \in OrderKeys :
            \/ exch'[k].accepted > exch[k].accepted
            \/ /\ exch[k].status \in OpenAtBinance
               /\ exch'[k].status \in {"CANCELED", "PENDING_CANCEL"})
        => enabled ]_vars

\* While no transaction is lost, terminal_at is set only on what Binance no
\* longer holds open, or cancels; a create recorded FAILED, because it could
\* not be looked up, is the one row that is closed while its order may be open.
StampedIsClosed ==
    \A k \in OrderKeys :
        orders[k].stamped =>
            orders[k].status = "FAILED" \/ exch[k].status \notin OpenAtBinance

\* A row in a terminal status "will never change again" (is_terminal_status),
\* unless a refresh or a cancel that loaded it while it was open writes over
\* it: neither looks again, and neither has it locked.
LoadedOpen(k) ==
    \/ \E r \in Readers : rd[r].key = k /\ rd[r].pc = "fetched"
                          /\ rd[r].base.status \notin TerminalStatuses
    \/ \E q \in Requests :
          /\ req[q].pc = "commit" /\ OrderOf(q) = k
          /\ req[q].base.status \in CancelableStatuses

OnlyOvertakenRewrite ==
    [][ \A k \in OrderKeys :
          orders[k].status \in TerminalStatuses /\ orders'[k] # orders[k]
              => LoadedOpen(k) ]_vars

-----------------------------------------------------------------------------
(* Liveness *)

\* Every handler that has started ends: waiting for another transaction's key,
\* failed calls and their confirmation never leave it hanging.
HandlersFinish == \A q \in Requests : InFlight(q) ~> ~InFlight(q)

-----------------------------------------------------------------------------
(* The promise the whole machinery keeps *)

Once == INSTANCE OnceOnly WITH
    Clients   <- Requests,
    AnswerSet <- Responses,
    Executed  <- {"NEW", "PARTIALLY_FILLED", "FILLED", "CANCELED", "EXPIRED"},
    Nothing   <- "absent",
    taken     <- [k \in OrderKeys |-> exch[k].accepted],
    answer    <- [k \in Keys |-> idem[k].resp],
    reply     <- [q \in Requests |->
                     IF Answered(q) THEN req[q].resp ELSE "absent"]

\* Reservation, blocking insert, confirmation and replay implement OnceOnly.
ImplementsOnceOnly == Once!OnceSpec

=============================================================================
