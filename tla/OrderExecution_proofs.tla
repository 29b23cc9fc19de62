----------------------- MODULE OrderExecution_proofs -----------------------
(***************************************************************************)
(* Theorems about OrderExecution for every set of keys, requests, readers  *)
(* and every order size: its types and the reservation, then what follows  *)
(* from the reservation for those who rely on it, who are the clients that *)
(* are answered, the operator of the kill switch, and the readers of the   *)
(* orders table.                                                           *)
(***************************************************************************)
EXTENDS OrderExecution, TLAPS

-----------------------------------------------------------------------------
(* Type correctness *)

\* What a handler's position says of its key and body, without which the
\* rows it reads would have no type.
WellPlaced(r) ==
    /\ r.pc = "position" => r.key \in CloseKeys
    /\ r.pc \in {"validate", "submit", "confirm"} => r.key \in OrderKeys
    /\ r.pc \in {"find", "cancel"} => r.key \in CancelKeys
    /\ r.pc \in {"reserve"} \cup Owning =>
          /\ r.key \in Keys
          /\ r.key \in CancelKeys => r.body \in OrderKeys
    /\ r.pc \in Owning => r.resp # "absent"

TypeInv ==
    /\ TypeOK
    /\ \A q \in Requests : WellPlaced(req[q])
    /\ \A r \in Readers : rd[r].pc # "idle" => rd[r].key \in OrderKeys

\* A payload of a typed order at Binance reconciles a typed row into one.
LEMMA StampedType ==
    ASSUME NEW row \in OrderRow
    PROVE  /\ Stamped(row) \in OrderRow /\ Stamped(row).status = row.status
           /\ [row EXCEPT !.stamped = TRUE] \in OrderRow
<1>1. Stamped(row) = [status |-> row.status, exec |-> row.exec,
                      stamped |-> row.stamped \/ row.status \in TerminalStatuses]
  BY DEF Stamped, OrderRow
<1>2. Stamped(row) \in OrderRow /\ Stamped(row).status = row.status
  <2>1. CASE row.stamped \/ row.status \in TerminalStatuses
    <3>1. Stamped(row) = [status |-> row.status, exec |-> row.exec,
                          stamped |-> TRUE]
      BY <2>1, <1>1
    <3> QED
      BY <3>1 DEF OrderRow
  <2>2. CASE ~(row.stamped \/ row.status \in TerminalStatuses)
    <3>1. Stamped(row) = [status |-> row.status, exec |-> row.exec,
                          stamped |-> FALSE]
      BY <2>2, <1>1
    <3> QED
      BY <3>1 DEF OrderRow
  <2> QED
    BY <2>1, <2>2
<1>3. [row EXCEPT !.stamped = TRUE] \in OrderRow
  BY DEF OrderRow
<1> QED
  BY <1>2, <1>3

LEMMA PayloadType ==
    ASSUME NEW x \in ExchOrder, x.status # "absent", NEW a \in Answers(x),
           NEW row \in OrderRow, Mapped(a)
    PROVE  /\ Reconciled(row, a) \in OrderRow
           /\ Stamped(Reconciled(row, a)) \in OrderRow
           /\ Reconciled(row, a).status \in OrderStatus
<1>1. a.exec \in 0..Lots /\ a.status \in BinanceStatus
  BY DEF ExchOrder, Answers, Mapped, BinanceStatusMap
<1> DEFINE s == BinanceStatusMap[a.status]
<1>2. s \in OrderStatus
  BY <1>1 DEF BinanceStatusMap, BinanceStatus, OrderStatus
<1>3. Reconciled(row, a) = [row EXCEPT !.status = s, !.exec = a.exec]
  BY DEF Reconciled
<1> HIDE DEF s
<1>4. Reconciled(row, a) \in OrderRow /\ Reconciled(row, a).status = s
  BY <1>1, <1>2, <1>3 DEF OrderRow
<1>5. Stamped(Reconciled(row, a)) \in OrderRow
  BY <1>4, StampedType
<1> QED
  BY <1>2, <1>4, <1>5

\* A flush of typed rows leaves a typed row.
LEMMA FlushType ==
    ASSUME NEW c \in OrderRow, NEW b \in OrderRow, NEW r \in OrderRow
    PROVE  Flush(c, b, r) \in OrderRow
  BY DEF Flush, OrderRow

\* The fields of a request that is about to commit.
LEMMA ConcludeType ==
    ASSUME TypeOK, NEW q \in Requests, NEW row \in OrderRow,
           row.status \in OrderStatus, NEW out \in Outcomes
    PROVE  /\ Conclude(q, row, out) \in Request
           /\ Conclude(q, row, out).pc = "commit"
           /\ Conclude(q, row, out).key = req[q].key
           /\ Conclude(q, row, out).body = req[q].body
           /\ Conclude(q, row, out).resp # "absent"
  BY DEF TypeOK, Request, Conclude, PCs, Owning, Responses, OrderStatus

LEMMA FailedType ==
    ASSUME NEW row \in OrderRow
    PROVE  /\ Failed(row) \in OrderRow /\ Failed(row).status \in OrderStatus
           /\ Refused(row) \in OrderRow /\ Refused(row).status \in OrderStatus
  BY DEF Failed, Refused, OrderRow, OrderStatus

\* A step that replaces one request by a well-placed one and leaves typed
\* tables behind.
LEMMA RequestStepType ==
    ASSUME TypeInv, NEW q \in Requests, NEW r \in Request, WellPlaced(r),
           req' = [req EXCEPT ![q] = r],
           idem' \in [Keys -> IdemRow], orders' \in [OrderKeys -> OrderRow],
           exch' \in [OrderKeys -> ExchOrder], UNCHANGED <<enabled, rd>>
    PROVE  TypeInv'
<1>1. TypeOK'
  BY DEF TypeInv, TypeOK
<1>2. \A p \in Requests : WellPlaced(req'[p])
  <2> SUFFICES ASSUME NEW p \in Requests
               PROVE  WellPlaced(req'[p])
    OBVIOUS
  <2>1. req'[p] = IF p = q THEN r ELSE req[p]
    BY DEF TypeInv, TypeOK
  <2> QED
    BY <2>1 DEF TypeInv
<1>3. \A x \in Readers : rd'[x].pc # "idle" => rd'[x].key \in OrderKeys
  BY DEF TypeInv
<1> QED
  BY <1>1, <1>2, <1>3 DEF TypeInv, WellPlaced

LEMMA LocalType ==
    ASSUME TypeInv, NEW q \in Requests, NEW r \in Request, WellPlaced(r),
           Local(q, r)
    PROVE  TypeInv'
  BY RequestStepType DEF Local, TypeInv, TypeOK

\* A handler that ends without touching the tables.
LEMMA FinishType ==
    ASSUME TypeInv, NEW q \in Requests, NEW out \in Outcomes, Finish(q, out)
    PROVE  TypeInv'
<1> DEFINE r == [req[q] EXCEPT !.pc = "done", !.out = out]
<1>1. r \in Request /\ r.pc = "done"
  BY DEF TypeInv, TypeOK, Request, PCs
<1>2. WellPlaced(r)
  BY <1>1 DEF WellPlaced, Owning
<1>3. Local(q, r)
  BY DEF Finish, Local, TypeInv, TypeOK
<1> QED
  BY <1>1, <1>2, <1>3, LocalType

LEMMA InitType == Init => TypeInv
  BY ConstantsAssumption
  DEF Init, TypeInv, TypeOK, WellPlaced, IdemRow, NoRow, OrderRow, AbsentRow,
      ExchOrder, Unplaced, Request, NotSent, Reader, NotReading, PCs, Owning,
      Outcomes

LEMMA ReceiveType ==
    ASSUME TypeInv, NEW q \in Requests, Receive(q)
    PROVE  TypeInv'
<1>1. CASE \E k \in OrderKeys \ CloseKeys, b \in Bodies : ReceiveCreate(q, k, b)
  <2>1. PICK k \in OrderKeys \ CloseKeys, b \in Bodies : ReceiveCreate(q, k, b)
    BY <1>1
  <2> DEFINE r == [req[q] EXCEPT !.pc = "reserve", !.key = k, !.body = b]
  <2>2. r \in Request /\ r.pc = "reserve" /\ r.key = k
    BY DEF TypeInv, TypeOK, Request, PCs, Keys, Payloads
  <2>3. Local(q, r)
    BY <2>1 DEF ReceiveCreate
  <2> QED
    BY <2>2, <2>3, LocalType, ConstantsAssumption DEF Keys, Owning, WellPlaced
<1>2. CASE \E k \in CloseKeys : ReceiveClose(q, k)
  <2>1. PICK k \in CloseKeys : ReceiveClose(q, k)
    BY <1>2
  <2> DEFINE r == [req[q] EXCEPT !.pc = "position", !.key = k]
  <2>0. req[q] \in Request /\ k \in Keys
    BY ConstantsAssumption DEF TypeInv, TypeOK, Keys
  <2>2. r \in Request /\ r.pc = "position" /\ r.key = k
    BY <2>0 DEF Request, PCs
  <2>3. Local(q, r)
    BY <2>1 DEF ReceiveClose
  <2> QED
    BY <2>2, <2>3, LocalType DEF Owning, WellPlaced
<1>3. CASE \E k \in CancelKeys, t \in OrderKeys : ReceiveCancel(q, k, t)
  <2>1. PICK k \in CancelKeys, t \in OrderKeys : ReceiveCancel(q, k, t)
    BY <1>3
  <2> DEFINE r == [req[q] EXCEPT !.pc = "reserve", !.key = k, !.body = t]
  <2>2. r \in Request /\ r.pc = "reserve" /\ r.key = k /\ r.body = t
    BY DEF TypeInv, TypeOK, Request, PCs, Keys, Payloads
  <2>3. Local(q, r)
    BY <2>1 DEF ReceiveCancel
  <2> QED
    BY <2>2, <2>3, LocalType DEF Keys, Owning, WellPlaced
<1> QED
  BY <1>1, <1>2, <1>3 DEF Receive

LEMMA ReserveType ==
    ASSUME TypeInv, NEW q \in Requests,
           \/ \E b \in Bodies : FindPosition(q, b)
           \/ NoPosition(q) \/ Reserve(q)
    PROVE  TypeInv'
<1> USE DEF TypeInv, TypeOK
<1>1. CASE \E b \in Bodies : FindPosition(q, b)
  <2>1. PICK b \in Bodies : FindPosition(q, b)
    BY <1>1
  <2> DEFINE r == [req[q] EXCEPT !.pc = "reserve", !.body = b]
  <2>2. r \in Request /\ r.pc = "reserve" /\ r.key = req[q].key
    BY DEF Request, PCs, Payloads
  <2>3. req[q].key \in CloseKeys
    BY <2>1 DEF FindPosition, WellPlaced
  <2>4. WellPlaced(r)
    BY <2>2, <2>3, ConstantsAssumption DEF WellPlaced, Owning, Keys
  <2>5. Local(q, r)
    BY <2>1 DEF FindPosition
  <2> QED
    BY <2>2, <2>4, <2>5, LocalType
<1>2. CASE NoPosition(q)
  BY <1>2, FinishType DEF NoPosition, Outcomes
<1>3. CASE Claim(q)
  <2> DEFINE r == [req[q] EXCEPT !.pc = "gate", !.resp = "PROCESSING"]
  <2>1. /\ r \in Request /\ r.pc = "gate" /\ r.key = req[q].key
        /\ r.body = req[q].body /\ r.resp = "PROCESSING"
    BY DEF Request, PCs, Owning, Responses
  <2>2. WellPlaced(r)
    BY <1>3, <2>1 DEF Claim, MayInsert, WellPlaced, Owning
  <2>3. Local(q, r)
    BY <1>3 DEF Claim
  <2> QED
    BY <2>1, <2>2, <2>3, LocalType
<1>4. CASE RefuseInProgress(q)
  BY <1>4, FinishType DEF RefuseInProgress, Outcomes
<1>5. CASE RefuseConflict(q)
  BY <1>5, FinishType DEF RefuseConflict, Outcomes
<1>6. CASE Replay(q)
  <2> DEFINE r == [req[q] EXCEPT !.pc = "done", !.out = "replayed",
                                 !.resp = idem[req[q].key].resp]
  <2>1. req[q].key \in Keys
    BY <1>6 DEF Replay, MayInsert, WellPlaced
  <2>2. r \in Request /\ r.pc = "done"
    BY <2>1 DEF Request, PCs, Outcomes, IdemRow
  <2>3. WellPlaced(r)
    BY <2>2 DEF WellPlaced, Owning
  <2>4. Local(q, r)
    BY <1>6 DEF Replay
  <2> QED
    BY <2>2, <2>3, <2>4, LocalType
<1> QED
  BY <1>1, <1>2, <1>3, <1>4, <1>5, <1>6 DEF Reserve

LEMMA GateType ==
    ASSUME TypeInv, NEW q \in Requests, Permit(q) \/ Deny(q)
    PROVE  TypeInv'
<1> USE DEF TypeInv, TypeOK
<1>0. /\ req[q].pc = "gate" /\ req[q].key \in Keys /\ req[q].resp # "absent"
      /\ req[q].key \in CancelKeys => req[q].body \in OrderKeys
  BY DEF Permit, Deny, WellPlaced, Owning
<1>1. CASE Permit(q) /\ req[q].key \in OrderKeys
  <2> DEFINE r == [req[q] EXCEPT !.pc = "validate", !.row.status = "PENDING"]
  <2>0. [req[q].row EXCEPT !.status = "PENDING"] \in OrderRow
    BY DEF Request, OrderRow, OrderStatus
  <2>1. /\ r \in Request /\ r.pc = "validate" /\ r.key = req[q].key
        /\ r.resp = req[q].resp
    BY <2>0 DEF Request, PCs, Owning
  <2>2. WellPlaced(r)
    BY <1>0, <1>1, <2>1, ConstantsAssumption DEF WellPlaced, Owning
  <2>3. Local(q, r)
    BY <1>1 DEF Permit
  <2> QED
    BY <2>1, <2>2, <2>3, LocalType
<1>2. CASE Permit(q) /\ req[q].key \notin OrderKeys
  <2> DEFINE r == [req[q] EXCEPT !.pc = "find"]
  <2>1. /\ r \in Request /\ r.pc = "find" /\ r.key = req[q].key
        /\ r.body = req[q].body /\ r.resp = req[q].resp
    BY DEF Request, PCs, Owning
  <2> HIDE DEF r, TypeInv, TypeOK
  <2>4. r.key \in CancelKeys
    BY <1>0, <1>2, <2>1 DEF Keys
  <2>2. WellPlaced(r)
    BY <1>0, <2>1, <2>4 DEF WellPlaced, Owning
  <2>3. Local(q, r)
    BY <1>2 DEF Permit, r
  <2> QED
    BY <2>1, <2>2, <2>3, LocalType
<1>3. CASE Deny(q)
  <2> DEFINE r == [req[q] EXCEPT !.pc = "commit", !.out = "disabled",
                                 !.resp = "REJECTED"]
  <2>0. "disabled" \in Outcomes /\ "REJECTED" \in Responses
    BY DEF Outcomes, Responses, OrderStatus
  <2>1. /\ r \in Request /\ r.pc = "commit" /\ r.key = req[q].key
        /\ r.body = req[q].body /\ r.resp = "REJECTED"
    BY <2>0 DEF Request, PCs, Owning
  <2>2. WellPlaced(r)
    BY <1>0, <2>1 DEF WellPlaced, Owning
  <2>3. Local(q, r)
    BY <1>3 DEF Deny
  <2> QED
    BY <2>1, <2>2, <2>3, LocalType
<1> QED
  BY <1>1, <1>2, <1>3

\* A handler that concludes keeps its key and body.
LEMMA ConclusionType ==
    ASSUME TypeInv, NEW q \in Requests, NEW row \in OrderRow,
           row.status \in OrderStatus, NEW out \in Outcomes,
           req[q].pc \in Owning
    PROVE  Conclude(q, row, out) \in Request /\ WellPlaced(Conclude(q, row, out))
  BY ConcludeType DEF TypeInv, WellPlaced, Owning

LEMMA AfterPayloadType ==
    ASSUME TypeInv, NEW q \in Requests, req[q].pc \in Owning,
           NEW x \in ExchOrder, x.status # "absent", NEW a \in Answers(x)
    PROVE  AfterPayload(q, a) \in Request /\ WellPlaced(AfterPayload(q, a))
<1>0. req[q].row \in OrderRow
  BY DEF TypeInv, TypeOK, Request
<1>1. CASE Mapped(a)
  <2> DEFINE row == Stamped(Reconciled(req[q].row, a))
  <2>1. row \in OrderRow /\ row.status \in OrderStatus
    BY <1>0, <1>1, PayloadType, StampedType
  <2> HIDE DEF row
  <2>2. Conclude(q, row, "ok") \in Request /\ WellPlaced(Conclude(q, row, "ok"))
    BY <2>1, ConclusionType DEF Outcomes
  <2> QED
    BY <1>1, <2>2 DEF AfterPayload, row
<1>2. CASE ~Mapped(a)
  <2> DEFINE row == Failed(req[q].row)
  <2>1. row \in OrderRow /\ row.status \in OrderStatus
    BY <1>0, FailedType
  <2> HIDE DEF row
  <2>2. /\ Conclude(q, row, "raised") \in Request
        /\ WellPlaced(Conclude(q, row, "raised"))
    BY <2>1, ConclusionType DEF Outcomes
  <2> QED
    BY <1>2, <2>2 DEF AfterPayload, row
<1> QED
  BY <1>1, <1>2

\* What the order call leaves at Binance.
LEMMA PlacedType ==
    ASSUME TypeInv, NEW k \in OrderKeys, NEW o \in FirstState
    PROVE  /\ Placed(k, o) \in ExchOrder /\ Placed(k, o).status # "absent"
           /\ [exch EXCEPT ![k] = Placed(k, o)] \in [OrderKeys -> ExchOrder]
<1>1. o.status \in BinanceStatus /\ o.exec \in 0..Lots /\ o.status # "absent"
  BY DEF FirstState, BinanceStatus
<1>2. exch[k].accepted + 1 \in Nat
  BY DEF TypeInv, TypeOK, ExchOrder
<1>3. Placed(k, o) \in ExchOrder /\ Placed(k, o).status # "absent"
  BY <1>1, <1>2 DEF Placed, ExchOrder
<1> QED
  BY <1>3 DEF TypeInv, TypeOK

LEMMA PlaceType ==
    ASSUME TypeInv, NEW q \in Requests, Place(q)
    PROVE  TypeInv'
<1>0. /\ req[q].pc \in Owning /\ req[q].key \in OrderKeys
      /\ req[q].row \in OrderRow /\ req[q].resp # "absent"
  BY DEF Place, Approve, Reject, InternalError, SubmitAcked, SubmitLost,
         SubmitRefused, ConfirmFound, ConfirmFailed, TypeInv, TypeOK, Request,
         WellPlaced, Owning
\* The steps that only move the handler on.
<1>1. ASSUME NEW pc \in {"submit", "confirm"}
      PROVE  LET r == [req[q] EXCEPT !.pc = pc] IN r \in Request /\ WellPlaced(r)
  <2> DEFINE r == [req[q] EXCEPT !.pc = pc]
  <2>1. /\ r \in Request /\ r.pc = pc /\ r.key = req[q].key
        /\ r.resp = req[q].resp
    BY DEF TypeInv, TypeOK, Request, PCs, Owning
  <2> QED
    BY <1>0, <2>1, ConstantsAssumption DEF WellPlaced, Owning, Keys
\* The steps that end with the row rejected or failed.
<1>2. ASSUME NEW out \in Outcomes,
             \/ Local(q, Conclude(q, Refused(req[q].row), out))
             \/ Local(q, Conclude(q, Failed(req[q].row), out))
      PROVE  TypeInv'
  BY <1>0, <1>2, FailedType, ConclusionType, LocalType
<1>3. CASE Approve(q)
  BY <1>1, <1>3, LocalType DEF Approve
<1>4. CASE Reject(q) \/ InternalError(q) \/ ConfirmFailed(q)
  BY <1>2, <1>4 DEF Reject, InternalError, ConfirmFailed, Outcomes
<1>5. CASE SubmitRefused(q)
  BY <1>1, <1>5, LocalType DEF SubmitRefused
<1>6. ASSUME NEW o \in FirstState, SubmitAcked(q, o)
      PROVE  TypeInv'
  <2>1. PICK a \in Answers(Placed(req[q].key, o)) :
           req' = [req EXCEPT ![q] = AfterPayload(q, a)]
    BY <1>6 DEF SubmitAcked
  <2>2. exch' \in [OrderKeys -> ExchOrder]
    BY <1>0, <1>6, PlacedType DEF SubmitAcked
  <2>3. AfterPayload(q, a) \in Request /\ WellPlaced(AfterPayload(q, a))
    BY <1>0, PlacedType, AfterPayloadType
  <2> QED
    BY <1>6, <2>1, <2>2, <2>3, RequestStepType DEF SubmitAcked, TypeInv, TypeOK
<1>7. ASSUME NEW o \in FirstState, SubmitLost(q, o)
      PROVE  TypeInv'
  <2> DEFINE r == [req[q] EXCEPT !.pc = "confirm"]
  <2>1. exch' \in [OrderKeys -> ExchOrder]
    BY <1>0, <1>7, PlacedType DEF SubmitLost
  <2>2. r \in Request /\ WellPlaced(r)
    BY <1>1
  <2>3. req' = [req EXCEPT ![q] = r]
    BY <1>7 DEF SubmitLost, TypeInv, TypeOK
  <2> HIDE DEF r
  <2> QED
    BY <1>7, <2>1, <2>2, <2>3, RequestStepType DEF SubmitLost, TypeInv, TypeOK
<1>8. CASE ConfirmFound(q)
  <2>1. PICK a \in Answers(exch[req[q].key]) : Local(q, AfterPayload(q, a))
    BY <1>8 DEF ConfirmFound
  <2>2. exch[req[q].key] \in ExchOrder /\ exch[req[q].key].status # "absent"
    BY <1>0, <1>8 DEF ConfirmFound, TypeInv, TypeOK
  <2>3. AfterPayload(q, a) \in Request /\ WellPlaced(AfterPayload(q, a))
    BY <1>0, <2>2, AfterPayloadType
  <2> QED
    BY <2>1, <2>3, LocalType
<1> QED
  BY <1>3, <1>4, <1>5, <1>6, <1>7, <1>8 DEF Place

\* The order a transaction writes.
LEMMA OrderOfType ==
    ASSUME TypeInv, NEW q \in Requests, req[q].pc \in Owning
    PROVE  OrderOf(q) \in OrderKeys /\ req[q].key \in Keys
  BY DEF TypeInv, WellPlaced, OrderOf, Keys

LEMMA CancelType ==
    ASSUME TypeInv, NEW q \in Requests, Cancel(q)
    PROVE  TypeInv'
<1>0. /\ req[q] \in Request /\ req[q].pc \in Owning
      /\ req[q].key \in CancelKeys /\ req[q].body \in OrderKeys
      /\ req[q].row \in OrderRow /\ req[q].resp # "absent"
  BY DEF Cancel, FindMissing, FindClosed, FindOpen, CancelAcked, CancelLost,
         CancelRefused, TypeInv, TypeOK, Request, WellPlaced, Owning
<1>1. OrderOf(q) \in OrderKeys /\ req[q].key \in Keys
  BY <1>0, OrderOfType
\* The steps that end with a stored response and the row untouched.
<1>2. ASSUME NEW out \in Outcomes, NEW resp \in Responses,
             NEW r, r = [req[q] EXCEPT !.pc = "commit", !.out = out, !.resp = resp]
      PROVE  r \in Request /\ WellPlaced(r)
  <2>1. /\ r \in Request /\ r.pc = "commit" /\ r.key = req[q].key
        /\ r.body = req[q].body /\ r.resp = resp
    BY <1>0, <1>2 DEF Request, PCs, Owning
  <2>2. resp # "absent"
    BY DEF Responses, OrderStatus
  <2> QED
    BY <1>0, <1>1, <2>1, <2>2 DEF WellPlaced, Owning
<1>3. CASE FindMissing(q)
  BY <1>2, <1>3, LocalType DEF FindMissing, Outcomes, Responses, OrderStatus
<1>4. CASE FindClosed(q)
  BY <1>2, <1>4, LocalType DEF FindClosed, Outcomes, Responses, OrderStatus
<1>5. CASE FindOpen(q)
  <2> DEFINE r == [req[q] EXCEPT !.pc = "cancel", !.base = orders[OrderOf(q)],
                                 !.row = orders[OrderOf(q)]]
  <2>1. orders[OrderOf(q)] \in OrderRow
    BY <1>1 DEF TypeInv, TypeOK
  <2>2. /\ r \in Request /\ r.pc = "cancel" /\ r.key = req[q].key
        /\ r.body = req[q].body /\ r.resp = req[q].resp
    BY <1>0, <2>1 DEF Request, PCs, Owning
  <2>3. WellPlaced(r)
    BY <1>0, <1>1, <2>2 DEF WellPlaced, Owning
  <2>4. Local(q, r)
    BY <1>5 DEF FindOpen
  <2> QED
    BY <2>2, <2>3, <2>4, LocalType
\* A cancelled order keeps its type at Binance.
<1>6. ASSUME NEW s \in {"CANCELED", "PENDING_CANCEL"}, CancelledAs(OrderOf(q), s)
      PROVE  /\ exch' \in [OrderKeys -> ExchOrder]
             /\ [exch[OrderOf(q)] EXCEPT !.status = s] \in ExchOrder
             /\ [exch[OrderOf(q)] EXCEPT !.status = s].status # "absent"
  <2> DEFINE x == [exch[OrderOf(q)] EXCEPT !.status = s]
  <2>1. x \in ExchOrder /\ x.status # "absent"
    BY <1>1 DEF TypeInv, TypeOK, ExchOrder, BinanceStatus
  <2>2. exch' = [exch EXCEPT ![OrderOf(q)] = x]
    BY <1>6 DEF CancelledAs
  <2> QED
    BY <1>1, <2>1, <2>2 DEF TypeInv, TypeOK
<1>7. ASSUME NEW s \in {"CANCELED", "PENDING_CANCEL"}, CancelAcked(q, s)
      PROVE  TypeInv'
  <2> DEFINE x == [exch[OrderOf(q)] EXCEPT !.status = s]
  <2>1. /\ exch' \in [OrderKeys -> ExchOrder]
        /\ x \in ExchOrder /\ x.status # "absent"
    BY <1>6, <1>7 DEF CancelAcked
  <2>2. PICK a \in Answers(x) :
           req' = [req EXCEPT ![q] =
             IF Mapped(a)
             THEN Conclude(q, [Reconciled(req[q].row, a) EXCEPT !.stamped = TRUE],
                           "ok")
             ELSE [req[q] EXCEPT !.pc = "commit", !.out = "raised"]]
    BY <1>7 DEF CancelAcked, TypeInv, TypeOK
  <2> HIDE DEF x
  <2>3. CASE Mapped(a)
    <3> DEFINE row == [Reconciled(req[q].row, a) EXCEPT !.stamped = TRUE]
    <3>1. /\ Reconciled(req[q].row, a) \in OrderRow
          /\ Reconciled(req[q].row, a).status \in OrderStatus
      BY <1>0, <2>1, <2>3, PayloadType
    <3>2. row \in OrderRow /\ row.status \in OrderStatus
      BY <3>1 DEF OrderRow
    <3>3. req' = [req EXCEPT ![q] = Conclude(q, row, "ok")]
      BY <2>2, <2>3
    <3> HIDE DEF row
    <3>4. Conclude(q, row, "ok") \in Request /\ WellPlaced(Conclude(q, row, "ok"))
      BY <1>0, <3>2, ConclusionType DEF Outcomes
    <3> QED
      BY <1>7, <2>1, <3>3, <3>4, RequestStepType
      DEF CancelAcked, TypeInv, TypeOK
  <2>4. CASE ~Mapped(a)
    <3> DEFINE r == [req[q] EXCEPT !.pc = "commit", !.out = "raised"]
    <3>1. /\ r \in Request /\ r.pc = "commit" /\ r.key = req[q].key
          /\ r.body = req[q].body /\ r.resp = req[q].resp
      BY <1>0 DEF Request, PCs, Owning, Outcomes
    <3>2. WellPlaced(r)
      BY <1>0, <1>1, <3>1 DEF WellPlaced, Owning
    <3>3. req' = [req EXCEPT ![q] = r]
      BY <2>2, <2>4
    <3> HIDE DEF r
    <3> QED
      BY <1>7, <2>1, <3>1, <3>2, <3>3, RequestStepType
      DEF CancelAcked, TypeInv, TypeOK
  <2> QED
    BY <2>3, <2>4
<1>8. CASE (\E s \in {"CANCELED", "PENDING_CANCEL"} : CancelLost(q, s))
           \/ CancelRefused(q)
  <2>1. CancelErrorResponse(q) \in Request /\ WellPlaced(CancelErrorResponse(q))
    <3>1. CancelErrorResponse(q)
            = [req[q] EXCEPT !.pc = "commit", !.out = "ok", !.resp = "FAILED"]
      BY <1>0 DEF CancelErrorResponse, Request
    <3> QED
      BY <1>2, <3>1 DEF Outcomes, Responses, OrderStatus
  <2>2. ASSUME NEW s \in {"CANCELED", "PENDING_CANCEL"}, CancelLost(q, s)
        PROVE  TypeInv'
    BY <1>6, <2>1, <2>2, RequestStepType DEF CancelLost, TypeInv, TypeOK
  <2> QED
    BY <1>8, <2>1, <2>2, LocalType DEF CancelRefused
<1> QED
  BY <1>3, <1>4, <1>5, <1>7, <1>8 DEF Cancel

LEMMA CommitType ==
    ASSUME TypeInv, NEW q \in Requests, Commit(q)
    PROVE  TypeInv'
<1> DEFINE r == [req[q] EXCEPT !.pc = "done"]
<1>1. /\ OrderOf(q) \in OrderKeys /\ req[q].key \in Keys
      /\ req[q] \in Request /\ req[q].resp # "absent"
  BY OrderOfType DEF Commit, Owning, TypeInv, TypeOK, WellPlaced
<1>2. r \in Request /\ WellPlaced(r)
  BY <1>1 DEF Request, PCs, WellPlaced, Owning
<1>3. idem' \in [Keys -> IdemRow]
  BY <1>1 DEF Commit, TypeInv, TypeOK, IdemRow, Request
<1>4. orders' \in [OrderKeys -> OrderRow]
  <2>1. Flush(orders[OrderOf(q)], req[q].base, req[q].row) \in OrderRow
    BY <1>1, FlushType DEF TypeInv, TypeOK, Request
  <2> QED
    BY <1>1, <2>1 DEF Commit, TypeInv, TypeOK
<1>5. req' = [req EXCEPT ![q] = r] /\ exch' = exch /\ UNCHANGED <<enabled, rd>>
  BY DEF Commit, TypeInv, TypeOK
<1> HIDE DEF r
<1> QED
  BY <1>2, <1>3, <1>4, <1>5, RequestStepType DEF TypeInv, TypeOK

\* The steps of the reads touch rows and readers only.
LEMMA ReadType ==
    ASSUME TypeInv, NEW r \in Readers,
           Read(r) \/ AbortRead(r) \/ \E k \in OrderKeys : Load(r, k)
    PROVE  TypeInv'
<1> USE DEF TypeInv, TypeOK
\* It suffices that the reader and the rows stay typed.
<1>1. ASSUME NEW x \in Reader, x.pc # "idle" => x.key \in OrderKeys,
             rd' = [rd EXCEPT ![r] = x], orders' \in [OrderKeys -> OrderRow],
             UNCHANGED <<idem, enabled, exch, req>>
      PROVE  TypeInv'
  BY <1>1 DEF WellPlaced
<1>2. NotReading \in Reader /\ NotReading.pc = "idle"
  BY ConstantsAssumption DEF NotReading, Reader, AbsentRow, OrderRow
<1>3. CASE AbortRead(r) \/ ReadEnds(r)
  BY <1>1, <1>2, <1>3 DEF AbortRead, ReadEnds
<1>4. ASSUME NEW k \in OrderKeys, Load(r, k)
      PROVE  TypeInv'
  <2> DEFINE x == [pc |-> "loaded", key |-> k, base |-> orders[k],
                   row |-> orders[k]]
  <2>1. x \in Reader /\ x.key = k
    BY DEF Reader
  <2> QED
    BY <1>1, <1>4, <2>1 DEF Load
<1>5. CASE Fetch(r)
  <2>1. rd[r].key \in OrderKeys /\ rd[r] \in Reader
    BY <1>5 DEF Fetch
  <2>2. PICK a \in Answers(exch[rd[r].key]) :
           /\ Mapped(a)
           /\ rd' = [rd EXCEPT ![r] = [rd[r] EXCEPT !.pc = "fetched",
                        !.row = Stamped(Reconciled(rd[r].row, a))]]
    BY <1>5 DEF Fetch
  <2> DEFINE x == [rd[r] EXCEPT !.pc = "fetched",
                                !.row = Stamped(Reconciled(rd[r].row, a))]
  <2>3. Stamped(Reconciled(rd[r].row, a)) \in OrderRow
    BY <1>5, <2>1, <2>2, PayloadType DEF Fetch, Reader
  <2>4. x \in Reader /\ x.key = rd[r].key
    BY <2>1, <2>3 DEF Reader
  <2> QED
    BY <1>1, <1>5, <2>1, <2>2, <2>4 DEF Fetch
<1>6. CASE Write(r)
  <2>1. rd[r].key \in OrderKeys /\ rd[r] \in Reader
    BY <1>6 DEF Write
  <2>2. Flush(orders[rd[r].key], rd[r].base, rd[r].row) \in OrderRow
    BY <2>1, FlushType DEF Reader
  <2> QED
    BY <1>1, <1>2, <1>6, <2>1, <2>2 DEF Write
<1> QED
  BY <1>3, <1>4, <1>5, <1>6 DEF Read

LEMMA WorldType ==
    ASSUME TypeInv,
           \/ \E k \in OrderKeys : Exchange(k)
           \/ \E on \in BOOLEAN : SetSwitch(on)
    PROVE  TypeInv'
<1> USE DEF TypeInv, TypeOK, WellPlaced
<1>1. CASE \E on \in BOOLEAN : SetSwitch(on)
  BY <1>1 DEF SetSwitch
<1>2. ASSUME NEW k \in OrderKeys, Exchange(k)
      PROVE  TypeInv'
  <2>1. ASSUME NEW x \in ExchOrder, exch' = [exch EXCEPT ![k] = x],
               UNCHANGED <<idem, orders, enabled, req, rd>>
        PROVE  TypeInv'
    BY <2>1
  <2>2. CASE Fill(k)
    <3> DEFINE s == IF exch[k].exec + 1 = Lots THEN "FILLED"
                    ELSE IF exch[k].status = "NEW" THEN "PARTIALLY_FILLED"
                    ELSE exch[k].status
               x == [exch[k] EXCEPT !.exec = exch[k].exec + 1, !.status = s]
    <3>1. exch[k].exec + 1 \in 0..Lots /\ s \in BinanceStatus
      BY <2>2, ConstantsAssumption
      DEF Fill, ExchOrder, BinanceStatus, OpenAtBinance
    <3>2. exch' = [exch EXCEPT ![k] = x]
      BY <2>2 DEF Fill, ExchOrder
    <3> HIDE DEF s
    <3>3. x \in ExchOrder
      BY <3>1 DEF ExchOrder
    <3> QED
      BY <2>1, <2>2, <3>2, <3>3 DEF Fill
  <2>3. ASSUME NEW s \in BinanceStatus, exch' = [exch EXCEPT ![k].status = s],
               UNCHANGED <<idem, orders, enabled, req, rd>>
        PROVE  TypeInv'
    <3> DEFINE x == [exch[k] EXCEPT !.status = s]
    <3>1. x \in ExchOrder
      BY DEF ExchOrder
    <3> QED
      BY <2>1, <2>3, <3>1
  <2> QED
    BY <1>2, <2>2, <2>3 DEF Exchange, Expire, FinishCancel, BinanceStatus
<1> QED
  BY <1>1, <1>2

LEMMA StepType == TypeInv /\ [Next]_vars => TypeInv'
<1> SUFFICES ASSUME TypeInv, [Next]_vars
             PROVE  TypeInv'
  OBVIOUS
<1>1. ASSUME NEW q \in Requests, Receive(q) \/ Handle(q) \/ Abort(q)
      PROVE  TypeInv'
  <2>1. CASE Abort(q)
    BY <2>1, FinishType DEF Abort, Outcomes
  <2> QED
    BY <1>1, <2>1, ReceiveType, ReserveType, GateType, PlaceType, CancelType,
       CommitType DEF Handle
<1>2. CASE UNCHANGED vars
  BY <1>2 DEF vars, TypeInv, TypeOK, WellPlaced
<1> QED
  BY <1>1, <1>2, ReadType, WorldType DEF Next

\* Every variable keeps its type whatever the requests, the reads and Binance
\* do: a handler never reads a row that is not there, and the columns written
\* by a flush are always of the order's own domain.
THEOREM TypeCorrect == Spec => []TypeOK
<1>1. TypeInv => TypeOK
  BY DEF TypeInv
<1> QED
  BY InitType, StepType, <1>1, PTL DEF Spec

-----------------------------------------------------------------------------
(* Binance takes an order once *)

\* The rows of an open transaction keep every other transaction away from
\* their key: the unique constraint makes its insert wait.
Exclusive ==
    \A p, q \in Requests :
        p # q /\ req[p].pc \in Owning /\ req[q].pc \in Owning =>
            req[p].key # req[q].key

\* What is reserved by an open transaction is not committed yet.
Uncommitted ==
    \A q \in Requests : req[q].pc \in Owning => idem[req[q].key] = NoRow

\* An order at Binance has its key committed, or still held by the
\* transaction that placed it, which is past the order call.
Past == {"confirm", "commit"}
Accounted ==
    \A k \in OrderKeys :
        exch[k].accepted > 0 =>
            \/ idem[k] # NoRow
            \/ \E q \in Requests : req[q].key = k /\ req[q].pc \in Past

\* AtMostOnce rests on the database keeping what was committed, or on Binance
\* refusing a client order id it has seen.
Contract == ~MayCrash \/ ExchangeDedups

\* Keys are held and kept apart whatever the constants; what follows for
\* Binance takes the contract, and the accounts of the keys end with a crash.
OnceInv ==
    /\ TypeInv /\ Exclusive /\ Uncommitted
    /\ Contract => AtMostOnce
    /\ ~MayCrash => Accounted

LEMMA InitOnce == Init => OnceInv
  BY InitType
  DEF Init, OnceInv, Exclusive, Uncommitted, AtMostOnce, Accounted, NotSent,
      Owning, Unplaced

\* A step of q that neither takes a key, nor gives one back, nor places.
Quiet(q, r) ==
    /\ req' = [req EXCEPT ![q] = r]
    /\ r.pc \in Owning => req[q].pc \in Owning /\ r.key = req[q].key
    /\ req[q].pc \in Past => r.pc \in Past /\ r.key = req[q].key
    /\ idem' = idem
    /\ \A k \in OrderKeys : exch'[k].accepted = exch[k].accepted

LEMMA QuietOnce ==
    ASSUME OnceInv, TypeInv', NEW q \in Requests, NEW r, Quiet(q, r)
    PROVE  OnceInv'
<1>1. \A p \in Requests : req'[p] = IF p = q THEN r ELSE req[p]
  BY DEF OnceInv, TypeInv, TypeOK, Quiet
<1>2. Exclusive'
  BY <1>1 DEF Exclusive, OnceInv, Quiet
<1>3. Uncommitted'
  BY <1>1 DEF Uncommitted, OnceInv, Quiet
<1>4. AtMostOnce => AtMostOnce'
  BY DEF AtMostOnce, Quiet
<1>5. Accounted => Accounted'
  BY <1>1 DEF Accounted, OnceInv, Quiet
<1> QED
  BY <1>2, <1>3, <1>4, <1>5 DEF OnceInv

\* Same, for a step that replaces fields of the request and nothing else.
LEMMA QuietLocal ==
    ASSUME OnceInv, TypeInv', NEW q \in Requests, NEW r, Local(q, r),
           r.pc \in Owning => req[q].pc \in Owning /\ r.key = req[q].key,
           req[q].pc \in Past => r.pc \in Past /\ r.key = req[q].key
    PROVE  OnceInv'
  BY QuietOnce DEF Quiet, Local

LEMMA ClaimOnce ==
    ASSUME OnceInv, TypeInv', NEW q \in Requests, Claim(q)
    PROVE  OnceInv'
<1> DEFINE r == [req[q] EXCEPT !.pc = "gate", !.resp = "PROCESSING"]
<1>1. req' = [req EXCEPT ![q] = r] /\ idem' = idem /\ exch' = exch
  BY DEF Claim, Local
<1>2. r.pc = "gate" /\ r.key = req[q].key
  BY DEF OnceInv, TypeInv, TypeOK, Request
<1> HIDE DEF r
<1>3. \A p \in Requests : req'[p] = IF p = q THEN r ELSE req[p]
  BY <1>1 DEF OnceInv, TypeInv, TypeOK
<1>4. \A p \in Requests \ {q} : req[p].pc \in Owning => req[p].key # req[q].key
  BY DEF Claim, MayInsert, Holds
<1>5. Exclusive'
  BY <1>2, <1>3, <1>4 DEF Exclusive, OnceInv
<1>6. Uncommitted'
  BY <1>1, <1>2, <1>3 DEF Uncommitted, OnceInv, Claim
<1>7. AtMostOnce => AtMostOnce'
  BY <1>1 DEF AtMostOnce
<1>8. Accounted => Accounted'
  BY <1>1, <1>3 DEF Accounted, Claim, MayInsert, Past
<1> QED
  BY <1>5, <1>6, <1>7, <1>8 DEF OnceInv

LEMMA CommitOnce ==
    ASSUME OnceInv, TypeInv', NEW q \in Requests, Commit(q)
    PROVE  OnceInv'
<1> DEFINE r == [req[q] EXCEPT !.pc = "done"]
           row == [body |-> req[q].body, resp |-> req[q].resp]
<1>1. /\ req' = [req EXCEPT ![q] = r] /\ exch' = exch
      /\ idem' = [idem EXCEPT ![req[q].key] = row]
  BY DEF Commit, OnceInv, TypeInv, TypeOK
<1>2. /\ r.pc = "done" /\ req[q].pc = "commit" /\ req[q].key \in Keys
      /\ req[q].resp # "absent"
  BY DEF Commit, OnceInv, TypeInv, TypeOK, Request, WellPlaced, Owning
<1>3. row # NoRow
  BY <1>2 DEF NoRow
<1> HIDE DEF r, row
<1>4. \A p \in Requests : req'[p] = IF p = q THEN r ELSE req[p]
  BY <1>1 DEF OnceInv, TypeInv, TypeOK
<1>5. \A k \in Keys : idem'[k] = IF k = req[q].key THEN row ELSE idem[k]
  BY <1>1 DEF OnceInv, TypeInv, TypeOK
<1>6. Exclusive'
  BY <1>2, <1>4 DEF Exclusive, OnceInv, Owning
<1>7. Uncommitted'
  <2> SUFFICES ASSUME NEW p \in Requests, req'[p].pc \in Owning
               PROVE  idem'[req'[p].key] = NoRow
    BY DEF Uncommitted
  <2>1. p # q /\ req'[p] = req[p]
    BY <1>2, <1>4 DEF Owning
  <2>2. req[p].key # req[q].key
    BY <1>2, <2>1 DEF Exclusive, OnceInv, Owning
  <2>3. req[p].key \in Keys
    BY <2>1, OrderOfType DEF OnceInv
  <2> QED
    BY <1>5, <2>1, <2>2, <2>3 DEF Uncommitted, OnceInv
<1>8. AtMostOnce => AtMostOnce'
  BY <1>1 DEF AtMostOnce
<1>9. Accounted => Accounted'
  <2> SUFFICES ASSUME Accounted, NEW k \in OrderKeys, exch[k].accepted > 0,
                      idem'[k] = NoRow
               PROVE  \E p \in Requests : req'[p].key = k /\ req'[p].pc \in Past
    BY <1>1 DEF Accounted
  <2>1. k # req[q].key /\ idem[k] = NoRow
    BY <1>3, <1>5 DEF Keys
  <2>2. PICK p \in Requests : req[p].key = k /\ req[p].pc \in Past
    BY <2>1 DEF Accounted
  <2> QED
    BY <1>4, <2>1, <2>2
<1> QED
  BY <1>6, <1>7, <1>8, <1>9 DEF OnceInv

\* The order call: nobody else holds the key and nothing is committed under
\* it, so the key has placed nothing; or Binance says so.
LEMMA PlacingOnce ==
    ASSUME OnceInv, TypeInv', NEW q \in Requests, NEW r,
           NEW o \in FirstState, req[q].pc = "submit",
           WouldAccept(req[q].key), r.pc \in Past, r.key = req[q].key,
           req' = [req EXCEPT ![q] = r], idem' = idem,
           exch' = [exch EXCEPT ![req[q].key] = Placed(req[q].key, o)]
    PROVE  OnceInv'
<1> DEFINE k == req[q].key
<1>1. k \in OrderKeys /\ r.pc \in Owning /\ req[q].pc \in Owning
  BY DEF OnceInv, TypeInv, WellPlaced, Past, Owning
<1>2. \A p \in Requests : req'[p] = IF p = q THEN r ELSE req[p]
  BY DEF OnceInv, TypeInv, TypeOK
<1>3. /\ exch[k].accepted \in Nat
      /\ \A j \in OrderKeys : exch'[j].accepted =
            IF j = k THEN exch[k].accepted + 1 ELSE exch[j].accepted
  BY <1>1 DEF OnceInv, TypeInv, TypeOK, ExchOrder, Placed
<1>4. Contract => exch[k].accepted = 0
  <2>1. CASE ExchangeDedups
    BY <2>1 DEF WouldAccept
  <2>2. CASE ~MayCrash
    <3>1. idem[k] = NoRow
      BY <1>1 DEF OnceInv, Uncommitted
    <3>2. \A p \in Requests : ~(req[p].key = k /\ req[p].pc \in Past)
      BY <1>1 DEF OnceInv, Exclusive, Past, Owning
    <3>3. ~(exch[k].accepted > 0)
      BY <1>1, <2>2, <3>1, <3>2 DEF OnceInv, Accounted
    <3> QED
      BY <1>3, <3>3
  <2> QED
    BY <2>1, <2>2 DEF Contract
<1>5. Contract => AtMostOnce'
  BY <1>3, <1>4 DEF AtMostOnce, OnceInv
<1>6. Exclusive'
  BY <1>1, <1>2 DEF Exclusive, OnceInv
<1>7. Uncommitted'
  BY <1>1, <1>2 DEF Uncommitted, OnceInv
<1>8. Accounted => Accounted'
  <2> SUFFICES ASSUME Accounted, NEW j \in OrderKeys, exch'[j].accepted > 0,
                      idem[j] = NoRow
               PROVE  \E p \in Requests : req'[p].key = j /\ req'[p].pc \in Past
    BY DEF Accounted
  <2>1. CASE j = k
    BY <1>2, <2>1
  <2>2. CASE j # k
    <3>1. PICK p \in Requests : req[p].key = j /\ req[p].pc \in Past
      BY <1>3, <2>2 DEF Accounted
    <3> QED
      BY <1>2, <2>2, <3>1
  <2> QED
    BY <2>1, <2>2
<1> QED
  BY <1>5, <1>6, <1>7, <1>8 DEF OnceInv

\* AfterPayload concludes.
LEMMA AfterPayloadPast ==
    ASSUME TypeInv, NEW q \in Requests, NEW a
    PROVE  /\ AfterPayload(q, a).pc = "commit"
           /\ AfterPayload(q, a).key = req[q].key
<1>1. ASSUME NEW row, NEW out
      PROVE  /\ Conclude(q, row, out).pc = "commit"
             /\ Conclude(q, row, out).key = req[q].key
  BY DEF Conclude, TypeInv, TypeOK, Request
<1> QED
  BY <1>1 DEF AfterPayload

LEMMA PlaceOnce ==
    ASSUME OnceInv, TypeInv', NEW q \in Requests, Place(q)
    PROVE  OnceInv'
<1>0. TypeInv /\ req[q] \in Request
  BY DEF OnceInv, TypeInv, TypeOK
<1>1. ASSUME NEW row, NEW out, Local(q, Conclude(q, row, out)),
             req[q].pc \in Owning
      PROVE  OnceInv'
  <2> DEFINE r == Conclude(q, row, out)
  <2>1. r.pc = "commit" /\ r.key = req[q].key
    BY <1>0 DEF Conclude, Request
  <2> QED
    BY <1>1, <2>1, QuietLocal DEF Past
<1>2. CASE Approve(q)
  <2> DEFINE r == [req[q] EXCEPT !.pc = "submit"]
  <2>1. r.pc = "submit" /\ r.key = req[q].key /\ Local(q, r)
    BY <1>0, <1>2 DEF Approve, Request
  <2> QED
    BY <1>2, <2>1, QuietLocal DEF Approve, Past, Owning
<1>3. CASE Reject(q) \/ InternalError(q) \/ ConfirmFailed(q)
  BY <1>1, <1>3 DEF Reject, InternalError, ConfirmFailed, Owning
<1>4. CASE SubmitRefused(q)
  <2> DEFINE r == [req[q] EXCEPT !.pc = "confirm"]
  <2>1. r.pc = "confirm" /\ r.key = req[q].key /\ Local(q, r)
    BY <1>0, <1>4 DEF SubmitRefused, Request
  <2> QED
    BY <1>4, <2>1, QuietLocal DEF SubmitRefused, Past, Owning
<1>5. CASE ConfirmFound(q)
  <2>1. PICK a \in Answers(exch[req[q].key]) : Local(q, AfterPayload(q, a))
    BY <1>5 DEF ConfirmFound
  <2> QED
    BY <1>0, <1>5, <2>1, AfterPayloadPast, QuietLocal
    DEF ConfirmFound, Past, Owning
<1>6. ASSUME NEW o \in FirstState, SubmitAcked(q, o)
      PROVE  OnceInv'
  <2>1. PICK a \in Answers(Placed(req[q].key, o)) :
           req' = [req EXCEPT ![q] = AfterPayload(q, a)]
    BY <1>6 DEF SubmitAcked
  <2> QED
    BY <1>0, <1>6, <2>1, AfterPayloadPast, PlacingOnce DEF SubmitAcked, Past
<1>7. ASSUME NEW o \in FirstState, SubmitLost(q, o)
      PROVE  OnceInv'
  <2> DEFINE r == [req[q] EXCEPT !.pc = "confirm"]
  <2>1. r.pc = "confirm" /\ r.key = req[q].key
    BY <1>0 DEF Request
  <2>2. req' = [req EXCEPT ![q] = r]
    BY <1>7 DEF SubmitLost, OnceInv, TypeInv, TypeOK
  <2> HIDE DEF r
  <2> QED
    BY <1>7, <2>1, <2>2, PlacingOnce DEF SubmitLost, Past
<1> QED
  BY <1>2, <1>3, <1>4, <1>5, <1>6, <1>7 DEF Place

LEMMA CancelOnce ==
    ASSUME OnceInv, TypeInv', NEW q \in Requests, Cancel(q)
    PROVE  OnceInv'
<1>0. /\ TypeInv /\ req[q] \in Request
      /\ req[q].pc \in {"find", "cancel"} /\ req[q].pc \in Owning
      /\ req[q].pc \notin Past
  BY DEF Cancel, FindMissing, FindClosed, FindOpen, CancelAcked, CancelLost,
         CancelRefused, OnceInv, TypeInv, TypeOK, Owning, Past
\* Whatever a cancel does, its handler keeps its key and Binance takes nothing.
<1>1. ASSUME NEW r, r.key = req[q].key, req' = [req EXCEPT ![q] = r],
             UNCHANGED idem, \A k \in OrderKeys : exch'[k].accepted = exch[k].accepted
      PROVE  OnceInv'
  BY <1>0, <1>1, QuietOnce DEF Quiet
<1>2. ASSUME NEW s, CancelledAs(OrderOf(q), s)
      PROVE  \A k \in OrderKeys : exch'[k].accepted = exch[k].accepted
  BY <1>0, <1>2 DEF CancelledAs, TypeInv, TypeOK, ExchOrder
<1>3. CASE FindMissing(q)
  <2> DEFINE r == [req[q] EXCEPT !.pc = "commit", !.out = "not_found",
                                 !.resp = "REJECTED"]
  <2>1. r.key = req[q].key
    BY <1>0 DEF Request
  <2> QED
    BY <1>1, <1>3, <2>1 DEF FindMissing, Local
<1>4. CASE FindClosed(q)
  <2> DEFINE r == [req[q] EXCEPT !.pc = "commit", !.out = "not_cancelable",
                                 !.resp = "REJECTED"]
  <2>1. r.key = req[q].key
    BY <1>0 DEF Request
  <2> QED
    BY <1>1, <1>4, <2>1 DEF FindClosed, Local
<1>5. CASE FindOpen(q)
  <2> DEFINE r == [req[q] EXCEPT !.pc = "cancel", !.base = orders[OrderOf(q)],
                                 !.row = orders[OrderOf(q)]]
  <2>1. r.key = req[q].key
    BY <1>0 DEF Request
  <2> QED
    BY <1>1, <1>5, <2>1 DEF FindOpen, Local
<1>6. ASSUME NEW s, CancelAcked(q, s)
      PROVE  OnceInv'
  <2>1. PICK a : req' = [req EXCEPT ![q] =
                   IF Mapped(a)
                   THEN Conclude(q, [Reconciled(req[q].row, a)
                                        EXCEPT !.stamped = TRUE], "ok")
                   ELSE [req[q] EXCEPT !.pc = "commit", !.out = "raised"]]
    BY <1>0, <1>6 DEF CancelAcked, TypeInv, TypeOK
  <2>2. ASSUME NEW row
        PROVE  Conclude(q, row, "ok").key = req[q].key
    BY <1>0 DEF Conclude, Request
  <2>3. [req[q] EXCEPT !.pc = "commit", !.out = "raised"].key = req[q].key
    BY <1>0 DEF Request
  <2> QED
    BY <1>1, <1>2, <1>6, <2>1, <2>2, <2>3 DEF CancelAcked
<1>7. CancelErrorResponse(q).key = req[q].key
  BY <1>0 DEF CancelErrorResponse, Request
<1>8. ASSUME NEW s, CancelLost(q, s)
      PROVE  OnceInv'
  BY <1>1, <1>2, <1>7, <1>8 DEF CancelLost
<1>9. CASE CancelRefused(q)
  BY <1>1, <1>7, <1>9 DEF CancelRefused, Local
<1> QED
  BY <1>3, <1>4, <1>5, <1>6, <1>8, <1>9 DEF Cancel

\* Before the reservation and at the gate a handler only moves on.
LEMMA OtherOnce ==
    ASSUME OnceInv, TypeInv', NEW q \in Requests,
           \/ Receive(q) \/ \E b \in Bodies : FindPosition(q, b)
           \/ NoPosition(q) \/ RefuseInProgress(q) \/ RefuseConflict(q)
           \/ Replay(q) \/ Permit(q) \/ Deny(q)
    PROVE  OnceInv'
<1>0. req[q] \in Request /\ req \in [Requests -> Request]
  BY DEF OnceInv, TypeInv, TypeOK
<1>1. ASSUME NEW r, Local(q, r), r.pc \notin Owning, req[q].pc \notin Past
      PROVE  OnceInv'
  BY <1>1, QuietLocal
<1>2. ASSUME NEW k, NEW b, ReceiveCreate(q, k, b) \/ ReceiveCancel(q, k, b)
      PROVE  OnceInv'
  <2> DEFINE r == [req[q] EXCEPT !.pc = "reserve", !.key = k, !.body = b]
  <2>1. r.pc = "reserve"
    BY <1>0 DEF Request
  <2> QED
    BY <1>1, <1>2, <2>1 DEF ReceiveCreate, ReceiveCancel, Owning, Past
<1>3. ASSUME NEW k, ReceiveClose(q, k)
      PROVE  OnceInv'
  <2> DEFINE r == [req[q] EXCEPT !.pc = "position", !.key = k]
  <2>1. r.pc = "position"
    BY <1>0 DEF Request
  <2> QED
    BY <1>1, <1>3, <2>1 DEF ReceiveClose, Owning, Past
<1>4. ASSUME NEW b, FindPosition(q, b)
      PROVE  OnceInv'
  <2> DEFINE r == [req[q] EXCEPT !.pc = "reserve", !.body = b]
  <2>1. r.pc = "reserve"
    BY <1>0 DEF Request
  <2> QED
    BY <1>1, <1>4, <2>1 DEF FindPosition, Owning, Past
<1>5. ASSUME NEW out, Finish(q, out), req[q].pc \notin Past
      PROVE  OnceInv'
  <2> DEFINE r == [req[q] EXCEPT !.pc = "done", !.out = out]
  <2>1. r.pc = "done" /\ Local(q, r)
    BY <1>0, <1>5 DEF Finish, Local, Request
  <2> QED
    BY <1>1, <1>5, <2>1 DEF Owning
<1>6. CASE NoPosition(q) \/ RefuseInProgress(q) \/ RefuseConflict(q)
  BY <1>5, <1>6
  DEF NoPosition, RefuseInProgress, RefuseConflict, MayInsert, Past
<1>7. CASE Replay(q)
  <2> DEFINE r == [req[q] EXCEPT !.pc = "done", !.out = "replayed",
                                 !.resp = idem[req[q].key].resp]
  <2>1. r.pc = "done"
    BY <1>0 DEF Request
  <2> QED
    BY <1>1, <1>7, <2>1 DEF Replay, MayInsert, Owning, Past
<1>8. ASSUME NEW r, Local(q, r), r.key = req[q].key, req[q].pc = "gate"
      PROVE  OnceInv'
  BY <1>8, QuietLocal DEF Owning, Past
<1>9. CASE Permit(q)
  <2>1. /\ [req[q] EXCEPT !.pc = "validate", !.row.status = "PENDING"].key
              = req[q].key
        /\ [req[q] EXCEPT !.pc = "find"].key = req[q].key
    BY <1>0 DEF Request
  <2> QED
    BY <1>8, <1>9, <2>1 DEF Permit
<1>10. CASE Deny(q)
  <2> DEFINE r == [req[q] EXCEPT !.pc = "commit", !.out = "disabled",
                                 !.resp = "REJECTED"]
  <2>1. r.key = req[q].key
    BY <1>0 DEF Request
  <2> QED
    BY <1>8, <1>10, <2>1 DEF Deny
<1> QED
  BY <1>2, <1>3, <1>4, <1>6, <1>7, <1>9, <1>10 DEF Receive

\* A lost transaction gives its key back; then the contract is Binance's.
LEMMA AbortOnce ==
    ASSUME OnceInv, TypeInv', NEW q \in Requests, Abort(q)
    PROVE  OnceInv'
<1> DEFINE r == [req[q] EXCEPT !.pc = "done", !.out = "aborted"]
<1>1. r.pc = "done" /\ req' = [req EXCEPT ![q] = r] /\ MayCrash
  BY DEF Abort, Finish, OnceInv, TypeInv, TypeOK, Request
<1> HIDE DEF r
<1>2. \A p \in Requests : req'[p] = IF p = q THEN r ELSE req[p]
  BY <1>1 DEF OnceInv, TypeInv, TypeOK
<1>3. UNCHANGED <<idem, exch>>
  BY DEF Abort, Finish
<1>4. Exclusive'
  BY <1>1, <1>2 DEF OnceInv, Exclusive, Owning
<1>5. Uncommitted'
  BY <1>1, <1>2, <1>3 DEF OnceInv, Uncommitted, Owning
<1>6. AtMostOnce => AtMostOnce'
  BY <1>3 DEF AtMostOnce
<1>7. MayCrash
  BY <1>1
<1> QED
  BY <1>4, <1>5, <1>6, <1>7 DEF OnceInv

\* What the reads, the switch and Binance do to orders already there.
LEMMA WorldOnce ==
    ASSUME OnceInv, TypeInv',
           \/ \E r \in Readers :
                 Read(r) \/ AbortRead(r) \/ \E k \in OrderKeys : Load(r, k)
           \/ \E k \in OrderKeys : Exchange(k)
           \/ \E on \in BOOLEAN : SetSwitch(on)
           \/ UNCHANGED vars
    PROVE  OnceInv'
<1>1. UNCHANGED <<idem, req>>
  BY DEF Read, Fetch, ReadEnds, Write, AbortRead, Load, Exchange, Fill, Expire,
         FinishCancel, SetSwitch, vars
<1>2. \A j \in OrderKeys : exch'[j].accepted = exch[j].accepted
  <2>1. ASSUME NEW k \in OrderKeys, Exchange(k)
        PROVE  \A j \in OrderKeys : exch'[j].accepted = exch[j].accepted
    <3>1. exch \in [OrderKeys -> ExchOrder]
      BY DEF OnceInv, TypeInv, TypeOK
    <3>2. CASE Fill(k)
      BY <3>1, <3>2 DEF Fill, ExchOrder
    <3>3. ASSUME NEW s, exch' = [exch EXCEPT ![k].status = s]
          PROVE  \A j \in OrderKeys : exch'[j].accepted = exch[j].accepted
      BY <3>1, <3>3 DEF ExchOrder
    <3> QED
      BY <2>1, <3>2, <3>3 DEF Exchange, Expire, FinishCancel
  <2>2. CASE exch' = exch
    BY <2>2
  <2> QED
    BY <2>1, <2>2
    DEF Read, Fetch, ReadEnds, Write, AbortRead, Load, SetSwitch, vars
<1> QED
  BY <1>1, <1>2
  DEF OnceInv, Exclusive, Uncommitted, AtMostOnce, Accounted

LEMMA StepOnce == OnceInv /\ [Next]_vars => OnceInv'
<1> SUFFICES ASSUME OnceInv, [Next]_vars
             PROVE  OnceInv'
  OBVIOUS
<1>1. TypeInv'
  BY StepType DEF OnceInv
<1>2. ASSUME NEW q \in Requests, Receive(q) \/ Handle(q) \/ Abort(q)
      PROVE  OnceInv'
  BY <1>1, <1>2, OtherOnce, ClaimOnce, CommitOnce, PlaceOnce, CancelOnce,
     AbortOnce DEF Handle, Reserve
<1> QED
  BY <1>1, <1>2, WorldOnce DEF Next

\* However many requests carry an order key, concurrently or one after the
\* other, Binance takes at most one order for it: by the reservation alone
\* when no transaction is lost, and by Binance's own check otherwise.
THEOREM PlacedAtMostOnce ==
    ASSUME Contract
    PROVE  Spec => []AtMostOnce
<1>1. OnceInv => AtMostOnce
  BY DEF OnceInv
<1> QED
  BY InitOnce, StepOnce, <1>1, PTL DEF Spec

-----------------------------------------------------------------------------
(* The clients and the kill switch: the invariant *)

\* What reports that Binance took an order, as in the INSTANCE of OnceOnly.
Executing == {"NEW", "PARTIALLY_FILLED", "FILLED", "CANCELED", "EXPIRED"}

\* Only a cancel that meets an unknown status is committed unanswered.
Settles(k) == k \in OrderKeys \/ ~MayUnmap

\* Past the kill switch and not yet finished with Binance.
Acting == {"validate", "submit", "confirm", "find", "cancel"}

\* Who was answered was answered with the committed row of the key.
Recorded(q) ==
    Answered(q) =>
        /\ req[q].key \in Keys /\ req[q].resp \in Responses
        /\ idem[req[q].key] = [body |-> req[q].body, resp |-> req[q].resp]

\* What is about to be committed is an outcome, and true of Binance.
Concluding(q) ==
    req[q].pc = "commit" =>
        /\ Settles(req[q].key) => req[q].resp # "PROCESSING"
        /\ req[q].key \in OrderKeys /\ req[q].resp \in Executing =>
              exch[req[q].key].accepted > 0

Gated(q) == SingleLoop /\ req[q].pc \in Acting => enabled

Told(q) == Recorded(q) /\ Concluding(q) /\ Gated(q)

AnswerInv ==
    /\ OnceInv
    /\ \A q \in Requests : Told(q)
    /\ \A k \in Keys : Settles(k) => idem[k].resp # "PROCESSING"
    /\ \A k \in OrderKeys : exch[k].status # "absent" => exch[k].accepted > 0

LEMMA InitAnswer == Init => AnswerInv
<1> SUFFICES ASSUME Init
             PROVE  AnswerInv
  OBVIOUS
<1>1. OnceInv
  BY InitOnce
<1>2. \A q \in Requests : Told(q)
  BY DEF Init, NotSent, Told, Recorded, Concluding, Gated, Answered, Acting
<1> QED
  BY <1>1, <1>2 DEF Init, AnswerInv, NoRow, Unplaced

\* What a step may do to the tables without disturbing an answer: a committed
\* key keeps its row, and Binance never untakes an order.
Onward ==
    /\ \A k \in Keys : idem[k] # NoRow => idem'[k] = idem[k]
    /\ \A k \in OrderKeys : exch[k].accepted > 0 => exch'[k].accepted > 0

LEMMA OthersTold ==
    ASSUME AnswerInv, NEW p \in Requests, req'[p] = req[p], Onward,
           enabled' = enabled
    PROVE  Told(p)'
<1>1. Told(p)
  BY DEF AnswerInv
<1>2. Recorded(p)'
  <2> SUFFICES ASSUME Answered(p)
               PROVE  /\ req[p].key \in Keys /\ req[p].resp \in Responses
                      /\ idem'[req[p].key]
                            = [body |-> req[p].body, resp |-> req[p].resp]
    BY DEF Recorded, Answered
  <2>1. /\ req[p].key \in Keys /\ req[p].resp \in Responses
        /\ idem[req[p].key] = [body |-> req[p].body, resp |-> req[p].resp]
    BY <1>1 DEF Told, Recorded
  <2>2. idem[req[p].key] # NoRow
    BY <2>1 DEF NoRow, Responses, OrderStatus
  <2> QED
    BY <2>1, <2>2 DEF Onward
<1>3. Concluding(p)'
  BY <1>1 DEF Told, Concluding, Settles, Onward
<1>4. Gated(p)'
  BY <1>1 DEF Told, Gated
<1> QED
  BY <1>2, <1>3, <1>4 DEF Told

\* A step of q that commits nothing: only q's own answer is in question.
LEMMA HandlerTold ==
    ASSUME AnswerInv, OnceInv', NEW q \in Requests,
           \A p \in Requests \ {q} : req'[p] = req[p],
           UNCHANGED <<idem, enabled>>, Onward,
           \A k \in OrderKeys : exch'[k].status # "absent" =>
               exch[k].status # "absent" \/ exch'[k].accepted > 0,
           Told(q)'
    PROVE  AnswerInv'
<1>1. \A p \in Requests : Told(p)'
  BY OthersTold
<1>2. \A k \in Keys : Settles(k) => idem'[k].resp # "PROCESSING"
  BY DEF AnswerInv
<1>3. \A k \in OrderKeys : exch'[k].status # "absent" => exch'[k].accepted > 0
  BY DEF AnswerInv, Onward
<1> QED
  BY <1>1, <1>2, <1>3 DEF AnswerInv, Settles

\* The same, for a step that only replaces the request.
LEMMA LocalTold ==
    ASSUME AnswerInv, OnceInv', NEW q \in Requests, NEW r, Local(q, r),
           Told(q)'
    PROVE  AnswerInv'
<1>1. /\ \A p \in Requests \ {q} : req'[p] = req[p]
      /\ UNCHANGED <<idem, exch, enabled>>
  BY DEF Local, AnswerInv, OnceInv, TypeInv, TypeOK
<1> QED
  BY <1>1, HandlerTold DEF Onward

\* Before it is admitted, and when it ends unanswered, a request is told
\* nothing.
LEMMA SilentTold ==
    ASSUME AnswerInv, OnceInv', NEW q \in Requests, NEW r, Local(q, r),
           \/ r.pc \in {"reserve", "position", "gate"}
           \/ r.pc = "done" /\ r.out \notin {"ok", "replayed"}
    PROVE  AnswerInv'
<1>1. req'[q] = r
  BY DEF Local, AnswerInv, OnceInv, TypeInv, TypeOK
<1>2. Told(q)'
  BY <1>1 DEF Told, Recorded, Answered, Concluding, Gated, Acting
<1> QED
  BY <1>2, LocalTold

LEMMA EarlyTold ==
    ASSUME AnswerInv, OnceInv', NEW q \in Requests,
           \/ Receive(q) \/ \E b \in Bodies : FindPosition(q, b)
           \/ NoPosition(q) \/ Claim(q) \/ RefuseInProgress(q)
           \/ RefuseConflict(q) \/ Abort(q)
    PROVE  AnswerInv'
<1>0. req[q] \in Request /\ req \in [Requests -> Request]
  BY DEF AnswerInv, OnceInv, TypeInv, TypeOK
<1>1. ASSUME NEW k, NEW b, ReceiveCreate(q, k, b) \/ ReceiveCancel(q, k, b)
      PROVE  AnswerInv'
  <2> DEFINE r == [req[q] EXCEPT !.pc = "reserve", !.key = k, !.body = b]
  <2>1. r.pc = "reserve"
    BY <1>0 DEF Request
  <2> QED
    BY <1>1, <2>1, SilentTold DEF ReceiveCreate, ReceiveCancel
<1>2. ASSUME NEW k, ReceiveClose(q, k)
      PROVE  AnswerInv'
  <2> DEFINE r == [req[q] EXCEPT !.pc = "position", !.key = k]
  <2>1. r.pc = "position"
    BY <1>0 DEF Request
  <2> QED
    BY <1>2, <2>1, SilentTold DEF ReceiveClose
<1>3. ASSUME NEW b, FindPosition(q, b)
      PROVE  AnswerInv'
  <2> DEFINE r == [req[q] EXCEPT !.pc = "reserve", !.body = b]
  <2>1. r.pc = "reserve"
    BY <1>0 DEF Request
  <2> QED
    BY <1>3, <2>1, SilentTold DEF FindPosition
<1>4. CASE Claim(q)
  <2> DEFINE r == [req[q] EXCEPT !.pc = "gate", !.resp = "PROCESSING"]
  <2>1. r.pc = "gate"
    BY <1>0 DEF Request
  <2> QED
    BY <1>4, <2>1, SilentTold DEF Claim
<1>5. ASSUME NEW out, Finish(q, out), out \notin {"ok", "replayed"}
      PROVE  AnswerInv'
  <2> DEFINE r == [req[q] EXCEPT !.pc = "done", !.out = out]
  <2>1. r.pc = "done" /\ r.out = out /\ Local(q, r)
    BY <1>0, <1>5 DEF Finish, Local, Request
  <2> QED
    BY <1>5, <2>1, SilentTold
<1> QED
  BY <1>1, <1>2, <1>3, <1>4, <1>5
  DEF Receive, NoPosition, RefuseInProgress, RefuseConflict, Abort

\* A replayed answer is the committed one, and it had the same body.
LEMMA ReplayTold ==
    ASSUME AnswerInv, OnceInv', NEW q \in Requests, Replay(q)
    PROVE  AnswerInv'
<1> DEFINE r == [req[q] EXCEPT !.pc = "done", !.out = "replayed",
                               !.resp = idem[req[q].key].resp]
<1>0. /\ req[q] \in Request /\ req \in [Requests -> Request]
      /\ req[q].key \in Keys /\ idem[req[q].key] \in IdemRow
      /\ idem[req[q].key].resp \in Responses
  BY DEF AnswerInv, OnceInv, TypeInv, TypeOK, Replay, MayInsert, WellPlaced,
         IdemRow
<1>1. /\ Local(q, r) /\ r.pc = "done" /\ r.key = req[q].key
      /\ r.body = req[q].body /\ r.resp = idem[req[q].key].resp
  BY <1>0 DEF Replay, Request
<1>2. idem[r.key] = [body |-> r.body, resp |-> r.resp]
  BY <1>0, <1>1 DEF Replay, IdemRow
<1> HIDE DEF r
<1>3. req'[q] = r /\ idem' = idem
  BY <1>0, <1>1 DEF Local
<1>4. Told(q)'
  BY <1>0, <1>1, <1>2, <1>3 DEF Told, Recorded, Concluding, Gated, Acting
<1> QED
  BY <1>1, <1>4, LocalTold

\* The kill switch lets no one past it while it is off.
LEMMA GateTold ==
    ASSUME AnswerInv, OnceInv', NEW q \in Requests, Permit(q) \/ Deny(q)
    PROVE  AnswerInv'
<1>0. req[q] \in Request /\ req \in [Requests -> Request]
  BY DEF AnswerInv, OnceInv, TypeInv, TypeOK
<1>1. ASSUME NEW r, Local(q, r), r.pc \in {"validate", "find"}, enabled
      PROVE  AnswerInv'
  <2>1. req'[q] = r /\ enabled'
    BY <1>0, <1>1 DEF Local
  <2>2. Told(q)'
    BY <1>1, <2>1 DEF Told, Recorded, Answered, Concluding, Gated
  <2> QED
    BY <1>1, <2>2, LocalTold
<1>2. CASE Permit(q)
  <2>1. /\ [req[q] EXCEPT !.pc = "validate", !.row.status = "PENDING"].pc
              = "validate"
        /\ [req[q] EXCEPT !.pc = "find"].pc = "find"
    BY <1>0 DEF Request
  <2> QED
    BY <1>1, <1>2, <2>1 DEF Permit
<1>3. CASE Deny(q)
  <2> DEFINE r == [req[q] EXCEPT !.pc = "commit", !.out = "disabled",
                                 !.resp = "REJECTED"]
  <2>1. r.pc = "commit" /\ r.resp = "REJECTED" /\ Local(q, r)
    BY <1>0, <1>3 DEF Deny, Request
  <2> HIDE DEF r
  <2>2. req'[q] = r
    BY <1>0, <2>1 DEF Local
  <2>3. Told(q)'
    BY <2>1, <2>2
    DEF Told, Recorded, Answered, Concluding, Gated, Acting, Executing
  <2> QED
    BY <2>1, <2>3, LocalTold
<1> QED
  BY <1>2, <1>3

\* Fields of a request that concludes.
LEMMA ConcludeFields ==
    ASSUME TypeInv, NEW q \in Requests, NEW row, NEW out
    PROVE  /\ Conclude(q, row, out).pc = "commit"
           /\ Conclude(q, row, out).key = req[q].key
           /\ Conclude(q, row, out).body = req[q].body
           /\ Conclude(q, row, out).row = row
           /\ Conclude(q, row, out).base = req[q].base
           /\ Conclude(q, row, out).resp = row.status
  BY DEF Conclude, TypeInv, TypeOK, Request

\* The answer after an order payload is an outcome.
LEMMA AfterPayloadFields ==
    ASSUME TypeInv, NEW q \in Requests, NEW x \in ExchOrder,
           x.status # "absent", NEW a \in Answers(x)
    PROVE  /\ AfterPayload(q, a).pc = "commit"
           /\ AfterPayload(q, a).key = req[q].key
           /\ AfterPayload(q, a).resp \in OrderStatus
<1>0. req[q].row \in OrderRow
  BY DEF TypeInv, TypeOK, Request
<1>1. ASSUME NEW row, NEW out, row.status \in OrderStatus
      PROVE  Conclude(q, row, out).resp \in OrderStatus
  BY <1>1, ConcludeFields
<1>2. CASE Mapped(a)
  <2> DEFINE row == Reconciled(req[q].row, a)
  <2>1. Stamped(row).status = row.status /\ row.status \in OrderStatus
    BY <1>0, <1>2, PayloadType, StampedType
  <2> HIDE DEF row
  <2>2. Conclude(q, Stamped(row), "ok").resp \in OrderStatus
    BY <1>1, <2>1
  <2> QED
    BY <1>2, <2>2, AfterPayloadPast DEF AfterPayload, row
<1>3. CASE ~Mapped(a)
  <2>1. Failed(req[q].row).status \in OrderStatus
    BY <1>0, FailedType
  <2> QED
    BY <1>1, <1>3, <2>1, AfterPayloadPast DEF AfterPayload
<1> QED
  BY <1>2, <1>3

LEMMA PlaceTold ==
    ASSUME AnswerInv, OnceInv', NEW q \in Requests, Place(q)
    PROVE  AnswerInv'
<1>0. /\ TypeInv /\ Told(q) /\ req[q] \in Request
      /\ req \in [Requests -> Request] /\ exch \in [OrderKeys -> ExchOrder]
  BY DEF AnswerInv, OnceInv, TypeInv, TypeOK
\* The steps that only move the handler on.
<1>1. ASSUME NEW pc \in {"submit", "confirm"}, req[q].pc \in Acting,
             Local(q, [req[q] EXCEPT !.pc = pc])
      PROVE  AnswerInv'
  <2> DEFINE r == [req[q] EXCEPT !.pc = pc]
  <2>1. r.pc = pc
    BY <1>0 DEF Request
  <2>2. req'[q] = r /\ enabled' = enabled
    BY <1>0, <1>1 DEF Local
  <2> HIDE DEF r
  <2>3. Told(q)'
    BY <1>0, <1>1, <2>1, <2>2
    DEF Told, Recorded, Answered, Concluding, Gated, Acting
  <2> QED
    BY <1>1, <2>3, LocalTold DEF r
\* The steps that end with the row rejected or failed.
<1>2. ASSUME NEW row, NEW out, row.status \in {"REJECTED", "FAILED"},
             Local(q, Conclude(q, row, out))
      PROVE  AnswerInv'
  <2> DEFINE r == Conclude(q, row, out)
  <2>1. r.pc = "commit" /\ r.resp = row.status
    BY <1>0, ConcludeFields
  <2>2. req'[q] = r
    BY <1>0, <1>2 DEF Local
  <2> HIDE DEF r
  <2>3. Told(q)'
    BY <1>2, <2>1, <2>2
    DEF Told, Recorded, Answered, Concluding, Gated, Acting, Executing
  <2> QED
    BY <1>2, <2>3, LocalTold DEF r
<1>3. CASE Approve(q) \/ SubmitRefused(q)
  BY <1>1, <1>3 DEF Approve, SubmitRefused, Acting
<1>4. CASE Reject(q) \/ InternalError(q) \/ ConfirmFailed(q)
  <2>1. /\ Refused(req[q].row).status = "REJECTED"
        /\ Failed(req[q].row).status = "FAILED"
    BY <1>0 DEF Refused, Failed, Request, OrderRow
  <2> QED
    BY <1>2, <1>4, <2>1 DEF Reject, InternalError, ConfirmFailed
\* The steps that end with what Binance answered.
<1>5. ASSUME NEW x \in ExchOrder, x.status # "absent", NEW a \in Answers(x),
             req'[q] = AfterPayload(q, a), exch'[req[q].key].accepted > 0
      PROVE  Told(q)'
  <2>1. /\ req'[q].pc = "commit" /\ req'[q].key = req[q].key
        /\ req'[q].resp \in OrderStatus
    BY <1>0, <1>5, AfterPayloadFields
  <2> QED
    BY <1>5, <2>1
    DEF Told, Recorded, Answered, Concluding, Gated, Acting, OrderStatus
<1>6. CASE ConfirmFound(q)
  <2> DEFINE x == exch[req[q].key]
  <2>1. req[q].key \in OrderKeys
    BY <1>0, <1>6 DEF ConfirmFound, TypeInv, WellPlaced
  <2>2. x \in ExchOrder /\ x.status # "absent" /\ x.accepted > 0
    BY <1>0, <1>6, <2>1 DEF ConfirmFound, AnswerInv
  <2>3. PICK a \in Answers(x) : Local(q, AfterPayload(q, a))
    BY <1>6 DEF ConfirmFound
  <2>4. req'[q] = AfterPayload(q, a) /\ exch' = exch
    BY <1>0, <2>3 DEF Local
  <2>5. Told(q)'
    BY <1>5, <2>2, <2>3, <2>4
  <2> QED
    BY <2>3, <2>5, LocalTold
\* What an order call changes at Binance.
<1>7. ASSUME NEW o \in FirstState, req[q].key \in OrderKeys,
             exch' = [exch EXCEPT ![req[q].key] = Placed(req[q].key, o)]
      PROVE  /\ exch'[req[q].key].accepted > 0
             /\ \A k \in OrderKeys \ {req[q].key} : exch'[k] = exch[k]
  BY <1>0, <1>7 DEF Placed, ExchOrder
<1>8. ASSUME NEW o \in FirstState, SubmitAcked(q, o)
      PROVE  AnswerInv'
  <2>1. req[q].key \in OrderKeys
    BY <1>0, <1>8 DEF SubmitAcked, TypeInv, WellPlaced
  <2>2. /\ exch'[req[q].key].accepted > 0
        /\ \A k \in OrderKeys \ {req[q].key} : exch'[k] = exch[k]
    BY <1>7, <1>8, <2>1 DEF SubmitAcked
  <2>3. PICK a \in Answers(Placed(req[q].key, o)) :
           req' = [req EXCEPT ![q] = AfterPayload(q, a)]
    BY <1>8 DEF SubmitAcked
  <2>4. Told(q)'
    BY <1>0, <1>5, <2>1, <2>2, <2>3, PlacedType
  <2>5. \A p \in Requests \ {q} : req'[p] = req[p]
    BY <1>0, <2>3
  <2> QED
    BY <1>8, <2>2, <2>4, <2>5, HandlerTold DEF SubmitAcked, Onward
<1>9. ASSUME NEW o \in FirstState, SubmitLost(q, o)
      PROVE  AnswerInv'
  <2>1. req[q].key \in OrderKeys
    BY <1>0, <1>9 DEF SubmitLost, TypeInv, WellPlaced
  <2>2. /\ exch'[req[q].key].accepted > 0
        /\ \A k \in OrderKeys \ {req[q].key} : exch'[k] = exch[k]
    BY <1>7, <1>9, <2>1 DEF SubmitLost
  <2>3. req'[q].pc = "confirm" /\ \A p \in Requests \ {q} : req'[p] = req[p]
    BY <1>0, <1>9 DEF SubmitLost, Request
  <2>4. Told(q)'
    BY <1>0, <1>9, <2>3
    DEF SubmitLost, Told, Recorded, Answered, Concluding, Gated, Acting
  <2> QED
    BY <1>9, <2>2, <2>3, <2>4, HandlerTold DEF SubmitLost, Onward
<1> QED
  BY <1>3, <1>4, <1>6, <1>8, <1>9 DEF Place

\* A cancel promises nothing of an order key, and it is unanswered only when
\* the status is unknown.
LEMMA CancelTold ==
    ASSUME AnswerInv, OnceInv', NEW q \in Requests, Cancel(q)
    PROVE  AnswerInv'
<1>0. /\ TypeInv /\ Told(q) /\ req[q] \in Request
      /\ req \in [Requests -> Request] /\ exch \in [OrderKeys -> ExchOrder]
      /\ req[q].pc \in {"find", "cancel"} /\ req[q].key \in CancelKeys
      /\ OrderOf(q) \in OrderKeys
  BY OrderOfType
  DEF Cancel, FindMissing, FindClosed, FindOpen, CancelAcked, CancelLost,
      CancelRefused, AnswerInv, OnceInv, TypeInv, TypeOK, WellPlaced, Owning
\* It suffices that q waits for Binance, or that it has an outcome or had
\* none it could read.
<1>1. ASSUME NEW r, req' = [req EXCEPT ![q] = r], r.key = req[q].key,
             \/ r.pc = "cancel"
             \/ r.pc = "commit" /\ (r.resp # "PROCESSING" \/ MayUnmap),
             UNCHANGED <<idem, enabled>>,
             \/ exch' = exch
             \/ \E s \in {"CANCELED", "PENDING_CANCEL"} : CancelledAs(OrderOf(q), s)
      PROVE  AnswerInv'
  <2>1. req'[q] = r /\ \A p \in Requests \ {q} : req'[p] = req[p]
    BY <1>0, <1>1
  <2>2. \A k \in OrderKeys : /\ exch'[k].accepted = exch[k].accepted
                             /\ exch'[k].status # "absent" =>
                                   exch[k].status # "absent"
    BY <1>0, <1>1 DEF CancelledAs, ExchOrder, OpenAtBinance
  <2>3. r.key \notin OrderKeys
    BY <1>0, <1>1, ConstantsAssumption
  <2>4. Told(q)'
    BY <1>0, <1>1, <2>1, <2>3
    DEF Told, Recorded, Answered, Concluding, Gated, Settles, Acting
  <2> QED
    BY <1>1, <2>1, <2>2, <2>4, HandlerTold DEF Onward
<1>2. ASSUME NEW out, NEW resp, resp # "PROCESSING",
             Local(q, [req[q] EXCEPT !.pc = "commit", !.out = out, !.resp = resp])
      PROVE  AnswerInv'
  <2> DEFINE r == [req[q] EXCEPT !.pc = "commit", !.out = out, !.resp = resp]
  <2>1. r.pc = "commit" /\ r.key = req[q].key /\ r.resp = resp
    BY <1>0 DEF Request
  <2> QED
    BY <1>1, <1>2, <2>1 DEF Local
<1>3. CASE FindMissing(q) \/ FindClosed(q)
  BY <1>2, <1>3 DEF FindMissing, FindClosed
<1>4. CASE FindOpen(q)
  <2> DEFINE r == [req[q] EXCEPT !.pc = "cancel", !.base = orders[OrderOf(q)],
                                 !.row = orders[OrderOf(q)]]
  <2>1. r.pc = "cancel" /\ r.key = req[q].key
    BY <1>0 DEF Request
  <2> QED
    BY <1>1, <1>4, <2>1 DEF FindOpen, Local
<1>5. ASSUME NEW s \in {"CANCELED", "PENDING_CANCEL"}, CancelAcked(q, s)
      PROVE  AnswerInv'
  <2> DEFINE x == [exch[OrderOf(q)] EXCEPT !.status = s]
  <2>1. PICK a \in Answers(x) : req' = [req EXCEPT ![q] =
                   IF Mapped(a)
                   THEN Conclude(q, [Reconciled(req[q].row, a)
                                        EXCEPT !.stamped = TRUE], "ok")
                   ELSE [req[q] EXCEPT !.pc = "commit", !.out = "raised"]]
    BY <1>0, <1>5 DEF CancelAcked
  <2>2. x \in ExchOrder /\ x.status # "absent"
    BY <1>0 DEF ExchOrder, BinanceStatus
  <2> HIDE DEF x
  <2>3. CASE Mapped(a)
    <3> DEFINE row == [Reconciled(req[q].row, a) EXCEPT !.stamped = TRUE]
    <3>1. row.status # "PROCESSING"
      <4>1. req[q].row \in OrderRow
        BY <1>0 DEF Request
      <4>2. /\ Reconciled(req[q].row, a) \in OrderRow
            /\ Reconciled(req[q].row, a).status \in OrderStatus
        BY <2>2, <2>3, <4>1, PayloadType
      <4> QED
        BY <4>2 DEF OrderRow, OrderStatus
    <3> HIDE DEF row
    <3> DEFINE r == Conclude(q, row, "ok")
    <3>2. r.pc = "commit" /\ r.key = req[q].key /\ r.resp = row.status
      BY <1>0, ConcludeFields
    <3>3. req' = [req EXCEPT ![q] = r]
      BY <2>1, <2>3 DEF row
    <3> QED
      BY <1>1, <1>5, <3>1, <3>2, <3>3 DEF CancelAcked
  <2>4. CASE ~Mapped(a)
    <3> DEFINE r == [req[q] EXCEPT !.pc = "commit", !.out = "raised"]
    <3>1. r.pc = "commit" /\ r.key = req[q].key
      BY <1>0 DEF Request
    <3>2. req' = [req EXCEPT ![q] = r]
      BY <2>1, <2>4
    <3>3. MayUnmap
      BY <2>2, <2>4 DEF Answers, Mapped, BinanceStatusMap, ExchOrder
    <3> QED
      BY <1>1, <1>5, <3>1, <3>2, <3>3 DEF CancelAcked
  <2> QED
    BY <2>3, <2>4
<1>6. CASE (\E s \in {"CANCELED", "PENDING_CANCEL"} : CancelLost(q, s))
           \/ CancelRefused(q)
  <2> DEFINE r == CancelErrorResponse(q)
  <2>1. r.pc = "commit" /\ r.key = req[q].key /\ r.resp = "FAILED"
    BY <1>0 DEF CancelErrorResponse, Request
  <2> QED
    BY <1>1, <1>6, <2>1 DEF CancelLost, CancelRefused, Local
<1> QED
  BY <1>3, <1>4, <1>5, <1>6 DEF Cancel

\* What a commit records is what its client is told.
LEMMA CommitTold ==
    ASSUME AnswerInv, OnceInv', NEW q \in Requests, Commit(q)
    PROVE  AnswerInv'
<1> DEFINE r == [req[q] EXCEPT !.pc = "done"]
           row == [body |-> req[q].body, resp |-> req[q].resp]
<1>0. /\ req[q] \in Request /\ req \in [Requests -> Request]
      /\ idem \in [Keys -> IdemRow] /\ Told(q)
      /\ req[q].pc = "commit" /\ req[q].key \in Keys
      /\ req[q].resp \in Responses /\ idem[req[q].key] = NoRow
  BY DEF AnswerInv, OnceInv, TypeInv, TypeOK, Commit, WellPlaced, Owning,
         Request, Uncommitted
<1>1. /\ r.pc = "done" /\ r.key = req[q].key /\ r.body = req[q].body
      /\ r.resp = req[q].resp
  BY <1>0 DEF Request
<1>2. req' = [req EXCEPT ![q] = r] /\ idem' = [idem EXCEPT ![req[q].key] = row]
  BY <1>0 DEF Commit
<1> HIDE DEF r
<1>3. req'[q] = r /\ \A p \in Requests \ {q} : req'[p] = req[p]
  BY <1>0, <1>2
<1>4. \A k \in Keys : idem'[k] = IF k = req[q].key THEN row ELSE idem[k]
  BY <1>0, <1>2
<1>5. Onward /\ UNCHANGED <<enabled, exch>>
  BY <1>0, <1>4 DEF Onward, Commit
<1>6. Told(q)'
  BY <1>0, <1>1, <1>3, <1>4 DEF Told, Recorded, Concluding, Gated, Acting
<1>7. \A p \in Requests : Told(p)'
  BY <1>3, <1>5, <1>6, OthersTold
<1>8. \A k \in Keys : Settles(k) => idem'[k].resp # "PROCESSING"
  BY <1>0, <1>4 DEF AnswerInv, Told, Concluding
<1>9. \A k \in OrderKeys : exch'[k].status # "absent" => exch'[k].accepted > 0
  BY <1>5 DEF AnswerInv
<1> QED
  BY <1>7, <1>8, <1>9 DEF AnswerInv, Settles

\* Reads and Binance tell no one anything; the switch moves while no handler
\* runs, where there is one loop.
LEMMA WorldTold ==
    ASSUME AnswerInv, OnceInv',
           \/ \E r \in Readers :
                 Read(r) \/ AbortRead(r) \/ \E k \in OrderKeys : Load(r, k)
           \/ \E k \in OrderKeys : Exchange(k)
           \/ \E on \in BOOLEAN : SetSwitch(on)
           \/ UNCHANGED vars
    PROVE  AnswerInv'
<1>0. exch \in [OrderKeys -> ExchOrder]
  BY DEF AnswerInv, OnceInv, TypeInv, TypeOK
<1>1. UNCHANGED <<idem, req>>
  BY DEF Read, Fetch, ReadEnds, Write, AbortRead, Load, Exchange, Fill, Expire,
         FinishCancel, SetSwitch, vars
<1>2. \A k \in OrderKeys : /\ exch'[k].accepted = exch[k].accepted
                           /\ exch'[k].status # "absent" =>
                                 exch[k].status # "absent"
  <2>1. ASSUME NEW j \in OrderKeys, Exchange(j)
        PROVE  \A k \in OrderKeys : /\ exch'[k].accepted = exch[k].accepted
                                    /\ exch'[k].status # "absent" =>
                                          exch[k].status # "absent"
    <3>1. exch[j].status # "absent" /\ \A k \in OrderKeys \ {j} : exch'[k] = exch[k]
      BY <1>0, <2>1 DEF Exchange, Fill, Expire, FinishCancel, OpenAtBinance
    <3>2. CASE Fill(j)
      BY <1>0, <3>1, <3>2 DEF Fill, ExchOrder
    <3>3. ASSUME NEW s, exch' = [exch EXCEPT ![j].status = s]
          PROVE  exch'[j].accepted = exch[j].accepted
      BY <1>0, <3>3 DEF ExchOrder
    <3> QED
      BY <2>1, <3>1, <3>2, <3>3 DEF Exchange, Expire, FinishCancel
  <2>2. CASE exch' = exch
    BY <2>2
  <2> QED
    BY <2>1, <2>2
    DEF Read, Fetch, ReadEnds, Write, AbortRead, Load, SetSwitch, vars
<1>3. Onward
  BY <1>1, <1>2 DEF Onward
<1>4. ASSUME NEW p \in Requests
      PROVE  Told(p)'
  <2>1. CASE enabled' = enabled
    BY <1>1, <1>3, <2>1, OthersTold
  <2>2. CASE enabled' # enabled
    <3>1. SingleLoop => req[p].pc \notin Acting
      BY <2>2 DEF Read, Fetch, ReadEnds, Write, AbortRead, Load, Exchange,
                  Fill, Expire, FinishCancel, SetSwitch, vars, LoopFree,
                  InFlight, Acting
    <3>2. exch' = exch
      BY <2>2 DEF Read, Fetch, ReadEnds, Write, AbortRead, Load, Exchange,
                  Fill, Expire, FinishCancel, SetSwitch, vars
    <3>3. Recorded(p)' /\ Concluding(p)'
      BY <1>1, <3>2 DEF AnswerInv, Told, Recorded, Answered, Concluding
    <3> QED
      BY <1>1, <3>1, <3>3 DEF Told, Gated
  <2> QED
    BY <2>1, <2>2
<1> QED
  BY <1>1, <1>2, <1>4 DEF AnswerInv, Settles

LEMMA StepAnswer == AnswerInv /\ [Next]_vars => AnswerInv'
<1> SUFFICES ASSUME AnswerInv, [Next]_vars
             PROVE  AnswerInv'
  OBVIOUS
<1>1. OnceInv'
  BY StepOnce DEF AnswerInv
<1>2. ASSUME NEW q \in Requests, Receive(q) \/ Handle(q) \/ Abort(q)
      PROVE  AnswerInv'
  BY <1>1, <1>2, EarlyTold, ReplayTold, GateTold, PlaceTold, CancelTold,
     CommitTold DEF Handle, Reserve
<1> QED
  BY <1>1, <1>2, WorldTold DEF Next

\* Two requests answered under one key had one body and received one answer:
\* both equal the row that was committed, which nothing replaces.
THEOREM SameAnswer == Spec => []AnswersAgree
<1>1. AnswerInv => AnswersAgree
  <2> SUFFICES ASSUME AnswerInv, NEW p \in Requests, NEW q \in Requests,
                      Answered(p), Answered(q), req[p].key = req[q].key
               PROVE  req[p].body = req[q].body /\ req[p].resp = req[q].resp
    BY DEF AnswersAgree
  <2>1. /\ idem[req[p].key] = [body |-> req[p].body, resp |-> req[p].resp]
        /\ idem[req[q].key] = [body |-> req[q].body, resp |-> req[q].resp]
    BY DEF AnswerInv, Told, Recorded
  <2>2. idem[req[p].key].body = req[q].body /\ idem[req[p].key].resp = req[q].resp
    BY <2>1
  <2> QED
    BY <2>1, <2>2
<1> QED
  BY InitAnswer, StepAnswer, <1>1, PTL DEF Spec

\* No order key is ever left PROCESSING: whatever is raised after the
\* reservation ends in the safety net, which finalizes it.
THEOREM OrderKeysFinalized ==
    Spec => [](\A k \in OrderKeys : idem[k].resp # "PROCESSING")
<1>1. AnswerInv => \A k \in OrderKeys : idem[k].resp # "PROCESSING"
  BY DEF AnswerInv, Settles, Keys
<1> QED
  BY InitAnswer, StepAnswer, <1>1, PTL DEF Spec

\* Neither is the key of a cancel, as long as Binance answers with statuses
\* the map has: an unknown one escapes cancel_order before it finalizes.
THEOREM NothingLeftProcessing ==
    ASSUME ~MayUnmap
    PROVE  Spec => []Finalized
<1>1. AnswerInv => Finalized
  BY DEF AnswerInv, Finalized, Settles
<1> QED
  BY InitAnswer, StepAnswer, <1>1, PTL DEF Spec

-----------------------------------------------------------------------------
(* The kill switch *)

\* An order call and a cancel are made by a handler the switch let through, so
\* no switch moved since: with one loop, none can while the handler runs.
LEMMA HonouredStep ==
    ASSUME SingleLoop, AnswerInv, [Next]_vars, NEW k \in OrderKeys,
           \/ exch'[k].accepted > exch[k].accepted
           \/ /\ exch[k].status \in OpenAtBinance
              /\ exch'[k].status \in {"CANCELED", "PENDING_CANCEL"}
    PROVE  enabled
<1>0. exch \in [OrderKeys -> ExchOrder] /\ \A q \in Requests : Gated(q)
  BY DEF AnswerInv, OnceInv, TypeInv, TypeOK, Told
<1>1. ASSUME NEW q \in Requests, req[q].pc \in Acting
      PROVE  enabled
  BY <1>0, <1>1 DEF Gated
<1>2. exch[k].accepted \in Nat /\ ~(exch[k].accepted > exch[k].accepted)
  BY <1>0 DEF ExchOrder
<1>3. exch' # exch
  BY <1>2 DEF OpenAtBinance
<1>4. ASSUME NEW q \in Requests, Receive(q) \/ Handle(q) \/ Abort(q)
      PROVE  req[q].pc \in Acting
  BY <1>3, <1>4
  DEF Receive, ReceiveCreate, ReceiveClose, ReceiveCancel, Handle,
      FindPosition, NoPosition, Reserve, Claim, RefuseInProgress,
      RefuseConflict, Replay, Permit, Deny, Commit, Abort, Finish, Local,
      Place, Approve, Reject, InternalError, SubmitAcked, SubmitLost,
      SubmitRefused, ConfirmFound, ConfirmFailed, Cancel, FindMissing,
      FindClosed, FindOpen, CancelAcked, CancelLost, CancelRefused, Acting
<1>5. ASSUME NEW j \in OrderKeys, Exchange(j)
      PROVE  FALSE
  <2>1. exch'[k].accepted = exch[k].accepted
    <3>1. CASE Fill(j)
      BY <1>0, <3>1 DEF Fill, ExchOrder
    <3>2. ASSUME NEW s, exch' = [exch EXCEPT ![j].status = s]
          PROVE  exch'[k].accepted = exch[k].accepted
      BY <1>0, <3>2 DEF ExchOrder
    <3> QED
      BY <1>5, <3>1, <3>2 DEF Exchange, Expire, FinishCancel
  <2>2. exch[k].status \in OpenAtBinance
    BY <1>2, <2>1
  <2>3. exch'[k].status \notin {"CANCELED", "PENDING_CANCEL"}
    <3>1. CASE Fill(j)
      BY <1>0, <2>2, <3>1 DEF Fill, ExchOrder, OpenAtBinance
    <3>2. ASSUME NEW s \in {"EXPIRED", "EXPIRED_IN_MATCH"}, Expire(j, s)
          PROVE  exch'[k].status \notin {"CANCELED", "PENDING_CANCEL"}
      BY <1>0, <2>2, <3>2 DEF Expire, ExchOrder, OpenAtBinance
    <3>3. CASE FinishCancel(j)
      BY <1>0, <2>2, <3>3 DEF FinishCancel, ExchOrder, OpenAtBinance
    <3> QED
      BY <1>5, <3>1, <3>2, <3>3 DEF Exchange
  <2> QED
    BY <1>2, <2>1, <2>3
<1>6. ~UNCHANGED vars
  BY <1>3 DEF vars
<1>7. ~ \/ \E r \in Readers :
              Read(r) \/ AbortRead(r) \/ \E j \in OrderKeys : Load(r, j)
        \/ \E on \in BOOLEAN : SetSwitch(on)
  BY <1>3 DEF Read, Fetch, ReadEnds, Write, AbortRead, Load, SetSwitch
<1> QED
  BY <1>1, <1>4, <1>5, <1>6, <1>7 DEF Next

\* With one event loop, no order reaches Binance and none is cancelled there
\* by Hermes in a step taken while trading is off.
THEOREM SwitchIsHonoured ==
    ASSUME SingleLoop
    PROVE  Spec => SwitchHonoured
<1>1. AnswerInv /\ [Next]_vars =>
        [ (\E k \in OrderKeys :
              \/ exch'[k].accepted > exch[k].accepted
              \/ /\ exch[k].status \in OpenAtBinance
                 /\ exch'[k].status \in {"CANCELED", "PENDING_CANCEL"})
          => enabled ]_vars
  BY HonouredStep
<1> QED
  BY InitAnswer, StepAnswer, <1>1, PTL DEF Spec, SwitchHonoured

-----------------------------------------------------------------------------
(* The refinement of OnceOnly *)

\* What OnceOnly sees of a step that takes nothing and tells nobody.
Unseen ==
    /\ idem' = idem
    /\ \A k \in OrderKeys : exch'[k].accepted = exch[k].accepted
    /\ \A q \in Requests : req'[q] # req[q] => ~Answered(q) /\ ~Answered(q)'

LEMMA UnseenStep == Unseen => UNCHANGED Once!once
  BY DEF Unseen, Answered, Once!once

\* Every step of a handler but the order call, the commit and the replay.
LEMMA HandlerUnseen ==
    ASSUME TypeInv, NEW q \in Requests,
           Receive(q) \/ Handle(q) \/ Abort(q), ~Commit(q), ~Replay(q),
           \A o \in FirstState : ~SubmitAcked(q, o) /\ ~SubmitLost(q, o)
    PROVE  Unseen
<1>0. /\ req[q] \in Request /\ req \in [Requests -> Request]
      /\ exch \in [OrderKeys -> ExchOrder]
  BY DEF TypeInv, TypeOK
\* It suffices that the handler has not ended before the step, and that it
\* does not end with an answer.
<1>1. ASSUME NEW r, req' = [req EXCEPT ![q] = r], idem' = idem,
             \A k \in OrderKeys : exch'[k].accepted = exch[k].accepted,
             req[q].pc # "done",
             r.pc # "done" \/ r.out \notin {"ok", "replayed"}
      PROVE  Unseen
  <2>1. req'[q] = r /\ \A p \in Requests \ {q} : req'[p] = req[p]
    BY <1>0, <1>1
  <2> QED
    BY <1>1, <2>1 DEF Unseen, Answered
<1>2. ASSUME NEW r, Local(q, r), req[q].pc # "done",
             r.pc # "done" \/ r.out \notin {"ok", "replayed"}
      PROVE  Unseen
  BY <1>1, <1>2 DEF Local
<1>3. CASE Receive(q)
  BY <1>0, <1>2, <1>3
  DEF Receive, ReceiveCreate, ReceiveClose, ReceiveCancel, Request
<1>4. ASSUME NEW out, Finish(q, out), out \notin {"ok", "replayed"},
             req[q].pc # "done"
      PROVE  Unseen
  BY <1>0, <1>1, <1>4 DEF Finish, Request
<1>5. CASE \/ NoPosition(q) \/ RefuseInProgress(q) \/ RefuseConflict(q)
           \/ Abort(q)
  BY <1>4, <1>5
  DEF NoPosition, RefuseInProgress, RefuseConflict, MayInsert, Abort, InFlight
<1>6. CASE (\E b \in Bodies : FindPosition(q, b)) \/ Claim(q)
  BY <1>0, <1>2, <1>6 DEF FindPosition, Claim, MayInsert, Request
<1>7. CASE Permit(q) \/ Deny(q)
  BY <1>0, <1>2, <1>7 DEF Permit, Deny, Request
<1>8. ASSUME NEW row, NEW out, Local(q, Conclude(q, row, out)),
             req[q].pc # "done"
      PROVE  Unseen
  BY <1>2, <1>8, ConcludeFields
<1>9. CASE Reject(q) \/ InternalError(q) \/ ConfirmFailed(q)
  BY <1>8, <1>9 DEF Reject, InternalError, ConfirmFailed
<1>10. CASE Approve(q) \/ SubmitRefused(q)
  BY <1>0, <1>2, <1>10 DEF Approve, SubmitRefused, Request
<1>11. CASE ConfirmFound(q)
  <2>1. PICK a : Local(q, AfterPayload(q, a))
    BY <1>11 DEF ConfirmFound
  <2>2. AfterPayload(q, a).pc = "commit"
    BY AfterPayloadPast
  <2> QED
    BY <1>2, <1>11, <2>1, <2>2 DEF ConfirmFound
<1>12. CASE FindMissing(q) \/ FindClosed(q) \/ FindOpen(q)
  BY <1>0, <1>2, <1>12 DEF FindMissing, FindClosed, FindOpen, Request
<1>13. CancelErrorResponse(q).pc = "commit"
  BY <1>0 DEF CancelErrorResponse, Request
<1>14. ASSUME NEW s, CancelledAs(OrderOf(q), s)
       PROVE  \A k \in OrderKeys : exch'[k].accepted = exch[k].accepted
  BY <1>0, <1>14 DEF CancelledAs, ExchOrder
<1>15. ASSUME NEW s, CancelAcked(q, s)
       PROVE  Unseen
  <2>1. PICK a : req' = [req EXCEPT ![q] =
                   IF Mapped(a)
                   THEN Conclude(q, [Reconciled(req[q].row, a)
                                        EXCEPT !.stamped = TRUE], "ok")
                   ELSE [req[q] EXCEPT !.pc = "commit", !.out = "raised"]]
    BY <1>0, <1>15 DEF CancelAcked
  <2>2. \A row : Conclude(q, row, "ok").pc = "commit"
    BY ConcludeFields
  <2> QED
    BY <1>0, <1>1, <1>14, <1>15, <2>1, <2>2 DEF CancelAcked, Request
<1>16. ASSUME NEW s, CancelLost(q, s)
       PROVE  Unseen
  BY <1>1, <1>13, <1>14, <1>16 DEF CancelLost
<1>17. CASE CancelRefused(q)
  BY <1>2, <1>13, <1>17 DEF CancelRefused
<1> QED
  BY <1>3, <1>5, <1>6, <1>7, <1>9, <1>10, <1>11, <1>12, <1>15, <1>16, <1>17
  DEF Handle, Reserve, Place, Cancel

\* The order call takes the order, and it is the first one under its key.
LEMMA OrderCallTakes ==
    ASSUME AnswerInv, Contract, OnceInv', NEW q \in Requests,
           NEW o \in FirstState, SubmitAcked(q, o) \/ SubmitLost(q, o)
    PROVE  \E k \in OrderKeys : Once!Take(k)
<1> PICK k : k = req[q].key
  OBVIOUS
<1>0. /\ TypeInv /\ req[q] \in Request /\ req \in [Requests -> Request]
      /\ exch \in [OrderKeys -> ExchOrder] /\ req[q].pc = "submit"
      /\ k \in OrderKeys /\ k \in Keys /\ idem[k] = NoRow
  BY DEF AnswerInv, OnceInv, TypeInv, TypeOK, SubmitAcked, SubmitLost,
         WellPlaced, Uncommitted, Owning, Keys
<1>1. exch' = [exch EXCEPT ![k] = Placed(k, o)] /\ idem' = idem
  BY DEF SubmitAcked, SubmitLost
<1>2. /\ exch'[k].accepted = exch[k].accepted + 1
      /\ \A j \in OrderKeys \ {k} : exch'[j] = exch[j]
  BY <1>0, <1>1 DEF Placed
<1>3. exch[k].accepted = 0 /\ exch'[k].accepted = 1
  <2>1. exch[k].accepted \in Nat
    BY <1>0 DEF ExchOrder
  <2>2. exch'[k].accepted <= 1
    BY <1>0 DEF OnceInv, AtMostOnce
  <2> QED
    BY <1>2, <2>1, <2>2
<1>4. /\ \A p \in Requests \ {q} : req'[p] = req[p]
      /\ req'[q].pc \in {"confirm", "commit"}
  <2>1. CASE SubmitAcked(q, o)
    <3>1. PICK a : req' = [req EXCEPT ![q] = AfterPayload(q, a)]
      BY <2>1 DEF SubmitAcked
    <3> QED
      BY <1>0, <3>1, AfterPayloadPast
  <2>2. CASE SubmitLost(q, o)
    BY <1>0, <2>2 DEF SubmitLost, Request
  <2> QED
    BY <2>1, <2>2
<1> DEFINE reply == [p \in Requests |->
                        IF Answered(p) THEN req[p].resp ELSE "absent"]
<1>5. reply' = reply
  BY <1>0, <1>4 DEF Answered
<1>6. [j \in OrderKeys |-> exch'[j].accepted]
        = [[j \in OrderKeys |-> exch[j].accepted] EXCEPT ![k] = 1]
  BY <1>0, <1>2, <1>3
<1>7. idem[k].resp = "absent" /\ k \in Keys
  BY <1>0 DEF NoRow
<1>8. Once!Take(k)
  BY <1>0, <1>1, <1>3, <1>5, <1>6, <1>7 DEF Once!Take
<1> QED
  BY <1>0, <1>8

\* The commit records the answer; its client gets it, or an error instead.
LEMMA CommitRecords ==
    ASSUME AnswerInv, Contract, NEW q \in Requests, Commit(q)
    PROVE  \E k \in Keys, a \in Responses : Once!Record(k, q, a)
<1> PICK k, a : k = req[q].key /\ a = req[q].resp
  OBVIOUS
<1>0. /\ TypeInv /\ req[q] \in Request /\ req \in [Requests -> Request]
      /\ idem \in [Keys -> IdemRow] /\ exch \in [OrderKeys -> ExchOrder]
      /\ req[q].pc = "commit" /\ k \in Keys /\ idem[k] = NoRow /\ Told(q)
      /\ a \in Responses
  BY DEF AnswerInv, OnceInv, TypeInv, TypeOK, Commit, WellPlaced, Uncommitted,
         Owning, Request
<1>1. /\ idem' = [idem EXCEPT ![k] = [body |-> req[q].body, resp |-> a]]
      /\ exch' = exch /\ ~Answered(q)
      /\ \A p \in Requests \ {q} : req'[p] = req[p]
      /\ req'[q].pc = "done" /\ req'[q].out = req[q].out /\ req'[q].resp = a
  BY <1>0 DEF Commit, Request, Answered
<1>2. k \in OrderKeys /\ a \in Executing => exch[k].accepted = 1
  <2>1. k \in OrderKeys => exch[k].accepted \in Nat /\ exch[k].accepted <= 1
    BY <1>0 DEF ExchOrder, AnswerInv, OnceInv, AtMostOnce
  <2> QED
    BY <1>0, <2>1 DEF Told, Concluding
<1>3. [j \in Keys |-> idem'[j].resp]
        = [[j \in Keys |-> idem[j].resp] EXCEPT ![k] = a]
  BY <1>0, <1>1
<1> DEFINE reply == [p \in Requests |->
                        IF Answered(p) THEN req[p].resp ELSE "absent"]
<1>4. reply' \in {reply, [reply EXCEPT ![q] = a]}
  <2>1. \A p \in Requests \ {q} : reply'[p] = reply[p]
    BY <1>1 DEF Answered
  <2>2. reply'[q] \in {reply[q], a}
    BY <1>1 DEF Answered
  <2> QED
    BY <2>1, <2>2
<1>5. idem[k].resp = "absent" /\ reply[q] = "absent"
  BY <1>0, <1>1 DEF NoRow
<1> QED
  BY <1>0, <1>1, <1>2, <1>3, <1>4, <1>5 DEF Once!Record, Executing

\* The replay repeats the recorded answer.
LEMMA ReplayRepeats ==
    ASSUME AnswerInv, NEW q \in Requests, Replay(q)
    PROVE  \E k \in Keys : Once!Repeat(k, q)
<1> PICK k : k = req[q].key
  OBVIOUS
<1> DEFINE reply == [p \in Requests |->
                        IF Answered(p) THEN req[p].resp ELSE "absent"]
<1>0. /\ req[q] \in Request /\ req \in [Requests -> Request] /\ k \in Keys
      /\ req[q].pc = "reserve" /\ idem[k].resp # "absent" /\ ~Answered(q)
  BY DEF AnswerInv, OnceInv, TypeInv, TypeOK, WellPlaced, Replay, MayInsert,
         Answered
<1>1. /\ UNCHANGED <<idem, exch>>
      /\ \A p \in Requests \ {q} : req'[p] = req[p]
      /\ req'[q].pc = "done" /\ req'[q].out = "replayed"
      /\ req'[q].resp = idem[k].resp
  BY <1>0 DEF Replay, Local, Request
<1>2. reply' = [reply EXCEPT ![q] = idem[k].resp]
  BY <1>1 DEF Answered
<1>3. reply[q] = "absent"
  BY <1>0
<1> QED
  BY <1>0, <1>1, <1>2, <1>3 DEF Once!Repeat

LEMMA WorldUnseen ==
    ASSUME TypeInv,
           \/ \E r \in Readers :
                 Read(r) \/ AbortRead(r) \/ \E k \in OrderKeys : Load(r, k)
           \/ \E k \in OrderKeys : Exchange(k)
           \/ \E on \in BOOLEAN : SetSwitch(on)
           \/ UNCHANGED vars
    PROVE  Unseen
<1>0. exch \in [OrderKeys -> ExchOrder]
  BY DEF TypeInv, TypeOK
<1>1. UNCHANGED <<idem, req>>
  BY DEF Read, Fetch, ReadEnds, Write, AbortRead, Load, Exchange, Fill, Expire,
         FinishCancel, SetSwitch, vars
<1>2. ASSUME NEW j \in OrderKeys, Exchange(j), NEW k \in OrderKeys
      PROVE  exch'[k].accepted = exch[k].accepted
  <2>1. CASE Fill(j)
    BY <1>0, <2>1 DEF Fill, ExchOrder
  <2>2. ASSUME NEW s, exch' = [exch EXCEPT ![j].status = s]
        PROVE  exch'[k].accepted = exch[k].accepted
    BY <1>0, <2>2 DEF ExchOrder
  <2> QED
    BY <1>2, <2>1, <2>2 DEF Exchange, Expire, FinishCancel
<1>3. CASE exch' = exch
  BY <1>1, <1>3 DEF Unseen
<1> QED
  BY <1>1, <1>2, <1>3
  DEF Unseen, Read, Fetch, ReadEnds, Write, AbortRead, Load, SetSwitch, vars

\* Every step of the trading API is a step of OnceOnly or is not seen there.
LEMMA OnceOnlyStep ==
    ASSUME AnswerInv, Contract, [Next]_vars
    PROVE  [Once!OnceNext]_(Once!once)
<1>0. OnceInv' /\ TypeInv
  BY StepOnce DEF AnswerInv, OnceInv
<1>1. ASSUME NEW q \in Requests, NEW o \in FirstState,
             SubmitAcked(q, o) \/ SubmitLost(q, o)
      PROVE  Once!OnceNext
  BY <1>0, <1>1, OrderCallTakes DEF Once!OnceNext
<1>2. ASSUME NEW q \in Requests, Commit(q)
      PROVE  Once!OnceNext
  BY <1>2, CommitRecords DEF Once!OnceNext
<1>3. ASSUME NEW q \in Requests, Replay(q)
      PROVE  Once!OnceNext
  BY <1>3, ReplayRepeats DEF Once!OnceNext
<1>4. ASSUME NEW q \in Requests, Receive(q) \/ Handle(q) \/ Abort(q)
      PROVE  Once!OnceNext \/ Unseen
  BY <1>0, <1>1, <1>2, <1>3, <1>4, HandlerUnseen
<1> QED
  BY <1>0, <1>4, WorldUnseen, UnseenStep DEF Next

\* Reservation, blocking insert, confirmation and replay implement OnceOnly:
\* one order and one answer for a key, for ever, and the answer that reports
\* an order follows it.
THEOREM OnceOnlyImplemented ==
    ASSUME Contract
    PROVE  Spec => ImplementsOnceOnly
<1>1. Init => Once!OnceInit
  BY DEF Init, Once!OnceInit, Unplaced, NoRow, NotSent, Answered
<1>2. AnswerInv /\ [Next]_vars => [Once!OnceNext]_(Once!once)
  BY OnceOnlyStep
<1> QED
  BY InitAnswer, StepAnswer, <1>1, <1>2, PTL
  DEF Spec, ImplementsOnceOnly, Once!OnceSpec

-----------------------------------------------------------------------------
(* The orders table: the invariant *)

\* A row before its transaction has heard from Binance.
PendingRow == [AbsentRow EXCEPT !.status = "PENDING"]

\* What a row says of its order is true now: outcomes and executions always,
\* refusals and closings as long as no transaction is lost.
Claims(row, k) ==
    /\ row.status \in {"FILLED", "CANCELED"} => exch[k].status = row.status
    /\ row.status = "EXPIRED" =>
          exch[k].status \in {"EXPIRED", "EXPIRED_IN_MATCH"}
    /\ row.exec <= exch[k].exec
    /\ ~MayCrash /\ row.status = "REJECTED" =>
          exch[k].status \in {"absent", "REJECTED"}
    /\ ~MayCrash /\ row.stamped =>
          row.status = "FAILED" \/ exch[k].status \notin OpenAtBinance

\* A row that was loaded from the table to be refreshed or cancelled: it was
\* open, its key is committed, and it is not one of those never looked up.
Loaded(base, row, k) ==
    /\ base.status \notin TerminalStatuses \cup {"absent"}
    /\ row.status # "FAILED" /\ orders[k].status # "FAILED"
    /\ idem[k] # NoRow

Blank(q) == req[q].row = AbsentRow /\ req[q].base = AbsentRow

RequestRow(q) ==
    /\ req[q].pc \in {"idle", "position", "reserve", "gate", "find"} => Blank(q)
    /\ req[q].pc \in {"validate", "submit", "confirm"} => req[q].row = PendingRow
    /\ req[q].pc = "cancel" => ~Blank(q)
    /\ req[q].pc \in Owning /\ req[q].key \in OrderKeys =>
          Claims(req[q].row, req[q].key) /\ req[q].base = AbsentRow
    /\ req[q].pc \in Owning /\ req[q].key \in CancelKeys =>
          \/ Blank(q)
          \/ /\ Claims(req[q].row, req[q].body)
             /\ Loaded(req[q].base, req[q].row, req[q].body)
             /\ req[q].base.status \in CancelableStatuses

ReaderRow(r) ==
    rd[r].pc # "idle" => /\ Claims(rd[r].row, rd[r].key)
                         /\ Loaded(rd[r].base, rd[r].row, rd[r].key)

\* A row is committed together with its key.
TableRow(k) ==
    Claims(orders[k], k) /\ (idem[k] = NoRow => orders[k] = AbsentRow)

\* Binance has what it accepted.
Kept(k) ==
    /\ exch[k].accepted = 0 => exch[k].status = "absent"
    /\ exch[k].status = "absent" => exch[k].exec = 0

RowsInv ==
    /\ OnceInv
    /\ \A k \in OrderKeys : TableRow(k) /\ Kept(k)
    /\ \A q \in Requests : RequestRow(q)
    /\ \A r \in Readers : ReaderRow(r)

LEMMA AbsentClaims ==
    ASSUME NEW k \in OrderKeys, exch \in [OrderKeys -> ExchOrder],
           NEW row \in {AbsentRow, PendingRow}
    PROVE  Claims(row, k)
  BY DEF Claims, AbsentRow, PendingRow, ExchOrder

LEMMA InitRows == Init => RowsInv
<1> SUFFICES ASSUME Init
             PROVE  RowsInv
  OBVIOUS
<1>1. OnceInv /\ exch \in [OrderKeys -> ExchOrder]
  BY InitOnce DEF OnceInv, TypeInv, TypeOK
<1>2. \A k \in OrderKeys : TableRow(k) /\ Kept(k)
  BY <1>1, AbsentClaims DEF Init, TableRow, Kept, Unplaced
<1>3. \A q \in Requests : RequestRow(q)
  BY DEF Init, RequestRow, Blank, NotSent, Owning
<1>4. \A r \in Readers : ReaderRow(r)
  BY DEF Init, ReaderRow, NotReading
<1> QED
  BY <1>1, <1>2, <1>3, <1>4 DEF RowsInv

\* Binance's order only moves on: what has ended stays as it ended.
Ahead(x, y) ==
    /\ x.status \in {"FILLED", "CANCELED", "EXPIRED", "EXPIRED_IN_MATCH",
                     "REJECTED", "absent"} => y.status = x.status
    /\ x.status \notin OpenAtBinance => y.status \notin OpenAtBinance
    /\ x.exec <= y.exec

LEMMA ClaimsKept ==
    ASSUME NEW row \in OrderRow, NEW k \in OrderKeys,
           exch[k] \in ExchOrder, exch'[k] \in ExchOrder,
           Ahead(exch[k], exch'[k]), Claims(row, k)
    PROVE  Claims(row, k)'
<1>1. row.exec <= exch'[k].exec
  <2>1. /\ row.exec \in Nat /\ exch[k].exec \in Nat /\ exch'[k].exec \in Nat
        /\ row.exec <= exch[k].exec /\ exch[k].exec <= exch'[k].exec
    BY ConstantsAssumption DEF OrderRow, ExchOrder, Ahead, Claims
  <2> QED
    BY <2>1
<1> QED
  BY <1>1 DEF Claims, Ahead

\* What a step may do to the tables behind the back of a row that is written
\* under a committed key.
Guarded ==
    \A k \in OrderKeys : idem[k] # NoRow =>
        /\ idem'[k] # NoRow
        /\ orders[k].status # "FAILED" => orders'[k].status # "FAILED"
        /\ Ahead(exch[k], exch'[k])

LEMMA OthersRow ==
    ASSUME RowsInv, TypeInv', Guarded, NEW p \in Requests, req'[p] = req[p],
           req[p].pc \in Owning /\ req[p].key \in OrderKeys =>
               Ahead(exch[req[p].key], exch'[req[p].key])
    PROVE  RequestRow(p)'
<1>0. /\ RequestRow(p) /\ req[p].row \in OrderRow /\ TypeInv
      /\ exch \in [OrderKeys -> ExchOrder]
      /\ exch' \in [OrderKeys -> ExchOrder]
  BY DEF RowsInv, OnceInv, TypeInv, TypeOK, Request
<1> PICK k, x, row : k = req[p].key /\ x = req[p].body /\ row = req[p].row
  OBVIOUS
<1>1. ASSUME req[p].pc \in Owning, k \in OrderKeys
      PROVE  Claims(row, k)'
  BY <1>0, <1>1, ClaimsKept DEF RequestRow
<1>2. ASSUME req[p].pc \in Owning, k \in CancelKeys, ~Blank(p)
      PROVE  Claims(row, x)' /\ Loaded(req[p].base, row, x)'
  <2>1. x \in OrderKeys
    BY <1>0, <1>2 DEF TypeInv, WellPlaced
  <2>2. Claims(row, x) /\ Loaded(req[p].base, row, x)
    BY <1>0, <1>2 DEF RequestRow
  <2>3. Ahead(exch[x], exch'[x])
    BY <2>1, <2>2 DEF Guarded, Loaded
  <2> QED
    BY <1>0, <2>1, <2>2, <2>3, ClaimsKept DEF Guarded, Loaded
<1> QED
  BY <1>0, <1>1, <1>2 DEF RequestRow, Blank

LEMMA ReadersRow ==
    ASSUME RowsInv, TypeInv', Guarded, NEW r \in Readers, rd'[r] = rd[r]
    PROVE  ReaderRow(r)'
<1> PICK k, row : k = rd[r].key /\ row = rd[r].row
  OBVIOUS
<1> SUFFICES ASSUME rd[r].pc # "idle"
             PROVE  Claims(row, k)' /\ Loaded(rd[r].base, row, k)'
  BY DEF ReaderRow
<1>1. /\ k \in OrderKeys /\ row \in OrderRow
      /\ exch[k] \in ExchOrder /\ exch'[k] \in ExchOrder
  BY DEF RowsInv, OnceInv, TypeInv, TypeOK, Reader
<1>2. Claims(row, k) /\ Loaded(rd[r].base, row, k)
  BY DEF RowsInv, ReaderRow
<1>3. Ahead(exch[k], exch'[k])
  BY <1>1, <1>2 DEF Guarded, Loaded
<1> QED
  BY <1>1, <1>2, <1>3, ClaimsKept DEF Guarded, Loaded

\* A row that is not written stays true: under an open key there is none.
LEMMA TablesRow ==
    ASSUME RowsInv, TypeInv', Guarded, NEW k \in OrderKeys,
           orders'[k] = orders[k], idem'[k] = idem[k]
    PROVE  TableRow(k)'
<1> PICK row : row = orders[k]
  OBVIOUS
<1>1. /\ row \in OrderRow /\ exch[k] \in ExchOrder /\ exch'[k] \in ExchOrder
      /\ exch' \in [OrderKeys -> ExchOrder]
      /\ Claims(row, k) /\ (idem[k] = NoRow => row = AbsentRow)
  BY DEF RowsInv, OnceInv, TypeInv, TypeOK, TableRow
<1>2. Claims(row, k)'
  <2>1. CASE idem[k] = NoRow
    <3>1. row = AbsentRow
      BY <1>1, <2>1
    <3> QED
      BY <1>1, <3>1 DEF Claims, AbsentRow, ExchOrder
  <2>2. CASE idem[k] # NoRow
    BY <1>1, <2>2, ClaimsKept DEF Guarded
  <2> QED
    BY <2>1, <2>2
<1> QED
  BY <1>1, <1>2 DEF TableRow

\* A step of q that writes no table here: what Binance has moves on, but for
\* an order placed under a key nobody else has.
LEMMA HandlerRow ==
    ASSUME RowsInv, OnceInv', NEW q \in Requests,
           \A p \in Requests \ {q} : req'[p] = req[p],
           UNCHANGED <<idem, orders, rd>>,
           \A k \in OrderKeys :
              \/ Ahead(exch[k], exch'[k])
              \/ req[q].pc \in Owning /\ req[q].key = k,
           \A k \in OrderKeys : Kept(k)', RequestRow(q)'
    PROVE  RowsInv'
<1>0. TypeInv /\ TypeInv' /\ Exclusive /\ Uncommitted
  BY DEF RowsInv, OnceInv
<1>1. Guarded
  BY <1>0 DEF Guarded, Uncommitted
<1>2. ASSUME NEW p \in Requests \ {q}
      PROVE  RequestRow(p)'
  BY <1>0, <1>1, OthersRow DEF Exclusive
<1>3. \A k \in OrderKeys : TableRow(k)'
  BY <1>0, <1>1, TablesRow
<1>4. \A r \in Readers : ReaderRow(r)'
  BY <1>0, <1>1, ReadersRow
<1> QED
  BY <1>2, <1>3, <1>4 DEF RowsInv

LEMMA AheadOfItself ==
    ASSUME NEW x \in ExchOrder
    PROVE  Ahead(x, x)
  BY ConstantsAssumption DEF Ahead, ExchOrder

\* The same, for a step that only replaces the request.
LEMMA LocalRow ==
    ASSUME RowsInv, OnceInv', NEW q \in Requests, NEW r, Local(q, r),
           RequestRow(q)'
    PROVE  RowsInv'
<1>1. /\ \A p \in Requests \ {q} : req'[p] = req[p]
      /\ exch \in [OrderKeys -> ExchOrder] /\ exch' = exch
      /\ UNCHANGED <<idem, orders, rd>>
  BY DEF Local, RowsInv, OnceInv, TypeInv, TypeOK
<1>2. \A k \in OrderKeys : Ahead(exch[k], exch'[k]) /\ Kept(k)'
  BY <1>1, AheadOfItself DEF RowsInv, Kept
<1> QED
  BY <1>1, <1>2, HandlerRow

\* A handler that ends has no row to speak for any more; one that has not
\* begun with a row has none.
LEMMA RowlessRow ==
    ASSUME RowsInv, OnceInv', NEW q \in Requests,
           \/ Receive(q) \/ \E b \in Bodies : FindPosition(q, b)
           \/ NoPosition(q) \/ Reserve(q) \/ Permit(q) \/ Deny(q)
           \/ FindMissing(q) \/ FindClosed(q) \/ Abort(q)
    PROVE  RowsInv'
<1>0. /\ req[q] \in Request /\ req \in [Requests -> Request]
      /\ RequestRow(q) /\ TypeInv /\ exch' \in [OrderKeys -> ExchOrder]
  BY DEF RowsInv, OnceInv, TypeInv, TypeOK
<1>1. ASSUME NEW r, Local(q, r), r.pc = "done"
      PROVE  RowsInv'
  <2>1. req'[q] = r
    BY <1>0, <1>1 DEF Local
  <2>2. RequestRow(q)'
    BY <1>1, <2>1 DEF RequestRow, Owning
  <2> QED
    BY <1>1, <2>2, LocalRow
<1>2. ASSUME NEW r, Local(q, r), Blank(q),
             r.row = req[q].row, r.base = req[q].base,
             r.pc \notin {"validate", "submit", "confirm", "cancel"}
      PROVE  RowsInv'
  <2>1. req'[q] = r /\ r.row = AbsentRow /\ r.base = AbsentRow
    BY <1>0, <1>2 DEF Local, Blank
  <2>2. ASSUME NEW k \in OrderKeys
        PROVE  Claims(AbsentRow, k)'
    BY <1>0 DEF Claims, AbsentRow, ExchOrder
  <2>3. RequestRow(q)'
    BY <1>2, <2>1, <2>2 DEF RequestRow, Blank
  <2> QED
    BY <1>2, <2>3, LocalRow
<1>3. CASE \/ NoPosition(q) \/ RefuseInProgress(q) \/ RefuseConflict(q)
           \/ Abort(q)
  <2>1. PICK out : Finish(q, out)
    BY <1>3 DEF NoPosition, RefuseInProgress, RefuseConflict, Abort
  <2> DEFINE r == [req[q] EXCEPT !.pc = "done", !.out = out]
  <2>2. r.pc = "done" /\ Local(q, r)
    BY <1>0, <2>1 DEF Finish, Local, Request
  <2> QED
    BY <1>1, <2>2
<1>4. CASE Replay(q)
  <2> DEFINE r == [req[q] EXCEPT !.pc = "done", !.out = "replayed",
                                 !.resp = idem[req[q].key].resp]
  <2>1. r.pc = "done" /\ Local(q, r)
    BY <1>0, <1>4 DEF Replay, Request
  <2> QED
    BY <1>1, <2>1
<1>5. CASE Receive(q)
  <2>1. Blank(q)
    BY <1>0, <1>5
    DEF Receive, ReceiveCreate, ReceiveClose, ReceiveCancel, RequestRow
  <2> QED
    BY <1>0, <1>2, <1>5, <2>1
    DEF Receive, ReceiveCreate, ReceiveClose, ReceiveCancel, Request
<1>6. CASE (\E b \in Bodies : FindPosition(q, b)) \/ Claim(q)
  <2>1. Blank(q)
    BY <1>0, <1>6 DEF FindPosition, Claim, MayInsert, RequestRow
  <2> QED
    BY <1>0, <1>2, <1>6, <2>1 DEF FindPosition, Claim, Request
<1>7. CASE Deny(q) \/ FindMissing(q) \/ FindClosed(q)
  <2>1. Blank(q)
    BY <1>0, <1>7 DEF Deny, FindMissing, FindClosed, RequestRow
  <2> QED
    BY <1>0, <1>2, <1>7, <2>1 DEF Deny, FindMissing, FindClosed, Request
<1>8. CASE Permit(q) /\ req[q].key \notin OrderKeys
  <2>1. Blank(q)
    BY <1>0, <1>8 DEF Permit, RequestRow
  <2> QED
    BY <1>0, <1>2, <1>8, <2>1 DEF Permit, Request
<1>9. CASE Permit(q) /\ req[q].key \in OrderKeys
  <2> DEFINE r == [req[q] EXCEPT !.pc = "validate", !.row.status = "PENDING"]
  <2>1. Blank(q)
    BY <1>0, <1>9 DEF Permit, RequestRow
  <2>2. Local(q, r)
    BY <1>9 DEF Permit
  <2>3. /\ r.pc = "validate" /\ r.key = req[q].key /\ r.base = AbsentRow
        /\ r.row = PendingRow
    BY <1>0, <2>1 DEF Request, Blank, PendingRow
  <2>4. ASSUME NEW k \in OrderKeys
        PROVE  Claims(PendingRow, k)'
    BY <1>0 DEF Claims, PendingRow, AbsentRow, ExchOrder
  <2> HIDE DEF r
  <2>5. req'[q] = r
    BY <1>0, <2>2 DEF Local
  <2>6. RequestRow(q)'
    <3>1. r.key \notin CancelKeys
      BY <1>9, <2>3, ConstantsAssumption
    <3> QED
      BY <1>9, <2>3, <2>4, <2>5, <3>1 DEF RequestRow
  <2> QED
    BY <2>2, <2>6, LocalRow
<1> QED
  BY <1>3, <1>4, <1>5, <1>6, <1>7, <1>8, <1>9 DEF Reserve

\* A row reconciled with what Binance has tells the truth.
LEMMA PayloadClaims ==
    ASSUME NEW k \in OrderKeys, exch'[k] \in ExchOrder,
           exch'[k].status # "absent", NEW a \in Answers(exch'[k]), Mapped(a),
           NEW row \in OrderRow
    PROVE  /\ (row.stamped => MayCrash \/ exch'[k].status \notin OpenAtBinance)
              => Claims(Stamped(Reconciled(row, a)), k)'
           /\ exch'[k].status \notin OpenAtBinance =>
                 Claims([Reconciled(row, a) EXCEPT !.stamped = TRUE], k)'
<1> PICK x : x = exch'[k]
  OBVIOUS
<1> DEFINE s == BinanceStatusMap[a.status]
<1>1. a.status = x.status /\ a.exec = x.exec /\ x.status \in BinanceStatus
  BY DEF Answers, Mapped, BinanceStatusMap, ExchOrder, BinanceStatus
<1>2. s = IF x.status = "EXPIRED_IN_MATCH" THEN "EXPIRED" ELSE x.status
  BY <1>1 DEF BinanceStatusMap
<1> HIDE DEF s
<1>3. /\ Reconciled(row, a).status = s /\ Reconciled(row, a).exec = x.exec
      /\ Reconciled(row, a).stamped = row.stamped
      /\ Reconciled(row, a)
            = [status |-> s, exec |-> x.exec, stamped |-> row.stamped]
  <2>1. Reconciled(row, a) = [row EXCEPT !.status = s, !.exec = x.exec]
    BY <1>1 DEF Reconciled, s
  <2>2. row = [status |-> row.status, exec |-> row.exec, stamped |-> row.stamped]
    BY DEF OrderRow
  <2> QED
    BY <2>1, <2>2
\* It suffices that the row is stamped only when Binance has closed the order.
<1>4. ASSUME NEW y, y.status = s, y.exec = x.exec,
             y.stamped => MayCrash \/ x.status \notin OpenAtBinance
      PROVE  Claims(y, k)'
  <2>1. y.exec <= x.exec
    BY <1>4, ConstantsAssumption DEF ExchOrder
  <2> QED
    BY <1>1, <1>2, <1>4, <2>1 DEF Claims, BinanceStatus
<1>5. ASSUME row.stamped => MayCrash \/ x.status \notin OpenAtBinance
      PROVE  Claims(Stamped(Reconciled(row, a)), k)'
  <2> DEFINE y == Stamped(Reconciled(row, a))
  <2>1. /\ y.status = s /\ y.exec = x.exec
        /\ y.stamped = (row.stamped \/ s \in TerminalStatuses)
    BY <1>3 DEF Stamped
  <2>2. s \in TerminalStatuses => x.status \notin OpenAtBinance
    BY <1>1, <1>2 DEF TerminalStatuses, OpenAtBinance
  <2> HIDE DEF y
  <2> QED
    BY <1>4, <1>5, <2>1, <2>2 DEF y
<1>6. ASSUME x.status \notin OpenAtBinance
      PROVE  Claims([Reconciled(row, a) EXCEPT !.stamped = TRUE], k)'
  BY <1>3, <1>4, <1>6
<1> QED
  BY <1>5, <1>6

\* A row nobody could look up claims nothing of Binance.
LEMMA FailedClaims ==
    ASSUME NEW k \in OrderKeys, exch'[k] \in ExchOrder
    PROVE  /\ Claims(Failed(PendingRow), k)'
           /\ exch'[k].status = "absent" \/ MayCrash =>
                 Claims(Refused(PendingRow), k)'
  BY DEF Claims, Failed, Refused, PendingRow, AbsentRow, ExchOrder,
         OpenAtBinance

\* The row of a create or close that concludes.
LEMMA ConcludedRow ==
    ASSUME TypeInv, NEW q \in Requests, NEW row, NEW out,
           req[q].key \in OrderKeys, req[q].base = AbsentRow,
           req'[q] = Conclude(q, row, out), Claims(row, req[q].key)',
           req'[q].key = req[q].key
    PROVE  RequestRow(q)'
<1>1. /\ req'[q].pc = "commit" /\ req'[q].row = row
      /\ req'[q].base = AbsentRow
  BY ConcludeFields
<1> QED
  BY <1>1, ConstantsAssumption DEF RequestRow

LEMMA PlaceRow ==
    ASSUME RowsInv, OnceInv', NEW q \in Requests, Place(q)
    PROVE  RowsInv'
<1> PICK k : k = req[q].key
  OBVIOUS
<1>0. /\ TypeInv /\ req[q] \in Request /\ req \in [Requests -> Request]
      /\ exch \in [OrderKeys -> ExchOrder]
      /\ exch' \in [OrderKeys -> ExchOrder] /\ RequestRow(q)
  BY DEF RowsInv, OnceInv, TypeInv, TypeOK
<1>1. /\ req[q].pc \in {"validate", "submit", "confirm"} /\ k \in OrderKeys
      /\ req[q].pc \in Owning
  BY <1>0 DEF Place, Approve, Reject, InternalError, SubmitAcked, SubmitLost,
              SubmitRefused, ConfirmFound, ConfirmFailed, TypeInv, WellPlaced,
              Owning
<1>2. /\ req[q].row = PendingRow /\ req[q].base = AbsentRow
      /\ PendingRow.stamped = FALSE /\ PendingRow \in OrderRow
  <2>1. req[q].row = PendingRow /\ req[q].base = AbsentRow
    BY <1>0, <1>1 DEF RequestRow
  <2>2. PendingRow.stamped = FALSE
    BY DEF PendingRow, AbsentRow
  <2> QED
    BY <1>0, <2>1, <2>2 DEF Request
\* A handler that goes on keeps its empty row.
<1>3. ASSUME req'[q].pc \in {"submit", "confirm"}, req'[q].key = k,
             req'[q].row = PendingRow, req'[q].base = AbsentRow
      PROVE  RequestRow(q)'
  <2>1. Claims(PendingRow, k)'
    BY <1>0, <1>1 DEF Claims, PendingRow, AbsentRow, ExchOrder
  <2> QED
    BY <1>1, <1>3, <2>1, ConstantsAssumption DEF RequestRow
<1>4. ASSUME NEW row, NEW out, req'[q] = Conclude(q, row, out), Claims(row, k)'
      PROVE  RequestRow(q)'
  <2>1. req'[q].key = k
    BY <1>0, <1>4, ConcludeFields
  <2> QED
    BY <1>0, <1>1, <1>2, <1>4, <2>1, ConcludedRow DEF Claims
<1>5. ASSUME NEW a \in Answers(exch'[k]), exch'[k].status # "absent",
             req'[q] = AfterPayload(q, a)
      PROVE  RequestRow(q)'
  <2>1. CASE Mapped(a)
    <3>1. Claims(Stamped(Reconciled(PendingRow, a)), k)'
      BY <1>0, <1>1, <1>2, <1>5, <2>1, PayloadClaims
    <3>2. req'[q] = Conclude(q, Stamped(Reconciled(PendingRow, a)), "ok")
      BY <1>2, <1>5, <2>1 DEF AfterPayload
    <3> QED
      BY <1>4, <3>1, <3>2
  <2>2. CASE ~Mapped(a)
    <3>1. Claims(Failed(PendingRow), k)'
      BY <1>0, <1>1, FailedClaims
    <3>2. req'[q] = Conclude(q, Failed(PendingRow), "raised")
      BY <1>2, <1>5, <2>2 DEF AfterPayload
    <3> QED
      BY <1>4, <3>1, <3>2
  <2> QED
    BY <2>1, <2>2
<1>6. CASE Approve(q) \/ SubmitRefused(q)
  <2>1. PICK pc \in {"submit", "confirm"} : Local(q, [req[q] EXCEPT !.pc = pc])
    BY <1>6 DEF Approve, SubmitRefused
  <2>2. /\ req'[q].pc = pc /\ req'[q].key = k /\ req'[q].row = PendingRow
        /\ req'[q].base = AbsentRow
    BY <1>0, <1>2, <2>1 DEF Local, Request
  <2> QED
    BY <1>3, <2>1, <2>2, LocalRow
<1>7. CASE InternalError(q) \/ ConfirmFailed(q)
  <2>1. PICK out : Local(q, Conclude(q, Failed(PendingRow), out))
    BY <1>2, <1>7 DEF InternalError, ConfirmFailed
  <2>2. Claims(Failed(PendingRow), k)'
    BY <1>0, <1>1, FailedClaims
  <2>3. req'[q] = Conclude(q, Failed(PendingRow), out)
    BY <1>0, <2>1 DEF Local
  <2> QED
    BY <1>4, <2>1, <2>2, <2>3, LocalRow
\* What is rejected here was never sent, if no transaction was lost.
<1>8. CASE Reject(q)
  <2>1. Local(q, Conclude(q, Refused(PendingRow), "ok")) /\ exch' = exch
    BY <1>2, <1>8 DEF Reject, Local
  <2>2. exch[k].status = "absent" \/ MayCrash
    <3> SUFFICES ASSUME ~MayCrash
                 PROVE  exch[k].status = "absent"
      OBVIOUS
    <3>1. idem[k] = NoRow
      BY <1>1 DEF RowsInv, OnceInv, Uncommitted
    <3>2. \A p \in Requests : ~(req[p].key = k /\ req[p].pc \in Past)
      BY <1>1, <1>8 DEF RowsInv, OnceInv, Exclusive, Past, Owning, Reject
    <3>3. exch[k].accepted \in Nat /\ ~(exch[k].accepted > 0)
      BY <1>0, <1>1, <3>1, <3>2 DEF RowsInv, OnceInv, Accounted, ExchOrder
    <3>4. exch[k].accepted = 0
      BY <3>3
    <3> QED
      BY <1>1, <3>4 DEF RowsInv, Kept
  <2>3. Claims(Refused(PendingRow), k)'
    BY <1>0, <1>1, <2>1, <2>2, FailedClaims
  <2>4. req'[q] = Conclude(q, Refused(PendingRow), "ok")
    BY <1>0, <2>1 DEF Local
  <2> QED
    BY <1>4, <2>1, <2>3, <2>4, LocalRow
<1>9. CASE ConfirmFound(q)
  <2>1. PICK a \in Answers(exch[k]) : Local(q, AfterPayload(q, a))
    BY <1>9 DEF ConfirmFound
  <2>2. exch' = exch /\ req'[q] = AfterPayload(q, a)
    BY <1>0, <2>1 DEF Local
  <2>3. exch[k].status # "absent"
    BY <1>9 DEF ConfirmFound
  <2>4. RequestRow(q)'
    BY <1>5, <2>1, <2>2, <2>3
  <2> QED
    BY <2>1, <2>4, LocalRow
\* An order is placed under a key that is committed nowhere.
<1>10. ASSUME NEW o \in FirstState, UNCHANGED <<idem, orders, rd>>,
              exch' = [exch EXCEPT ![k] = Placed(k, o)],
              \A p \in Requests \ {q} : req'[p] = req[p], RequestRow(q)'
       PROVE  RowsInv'
  <2>1. exch'[k] = Placed(k, o) /\ \A j \in OrderKeys \ {k} : exch'[j] = exch[j]
    BY <1>0, <1>1, <1>10
  <2>2. exch'[k].status # "absent" /\ exch'[k].accepted # 0
    BY <1>0, <1>1, <2>1, PlacedType DEF Placed, ExchOrder
  <2>3. \A j \in OrderKeys : Kept(j)'
    BY <2>1, <2>2 DEF RowsInv, Kept
  <2>4. \A j \in OrderKeys : Ahead(exch[j], exch'[j]) \/ k = j
    BY <1>0, <2>1, AheadOfItself
  <2> QED
    BY <1>1, <1>10, <2>3, <2>4, HandlerRow
<1>11. ASSUME NEW o \in FirstState, SubmitAcked(q, o)
       PROVE  RowsInv'
  <2>1. exch' = [exch EXCEPT ![k] = Placed(k, o)]
    BY <1>11 DEF SubmitAcked
  <2>2. exch'[k] = Placed(k, o) /\ Placed(k, o).status # "absent"
    BY <1>0, <1>1, <2>1, PlacedType
  <2>3. PICK a \in Answers(Placed(k, o)) :
           req' = [req EXCEPT ![q] = AfterPayload(q, a)]
    BY <1>11 DEF SubmitAcked
  <2>4. /\ req'[q] = AfterPayload(q, a)
        /\ \A p \in Requests \ {q} : req'[p] = req[p]
    BY <1>0, <2>3
  <2>5. RequestRow(q)'
    BY <1>5, <2>2, <2>3, <2>4
  <2> QED
    BY <1>10, <1>11, <2>1, <2>4, <2>5 DEF SubmitAcked
<1>12. ASSUME NEW o \in FirstState, SubmitLost(q, o)
       PROVE  RowsInv'
  <2>1. exch' = [exch EXCEPT ![k] = Placed(k, o)]
    BY <1>12 DEF SubmitLost
  <2>2. /\ req'[q].pc = "confirm" /\ req'[q].key = k
        /\ req'[q].row = PendingRow /\ req'[q].base = AbsentRow
        /\ \A p \in Requests \ {q} : req'[p] = req[p]
    BY <1>0, <1>2, <1>12 DEF SubmitLost, Request
  <2>3. RequestRow(q)'
    BY <1>3, <2>2
  <2> QED
    BY <1>10, <1>12, <2>1, <2>2, <2>3 DEF SubmitLost
<1> QED
  BY <1>6, <1>7, <1>8, <1>9, <1>11, <1>12 DEF Place

LEMMA CancelRow ==
    ASSUME RowsInv, OnceInv', NEW q \in Requests, Cancel(q),
           ~FindMissing(q), ~FindClosed(q)
    PROVE  RowsInv'
<1> PICK x, base, row : /\ x = req[q].body /\ base = req[q].base
                        /\ row = req[q].row
  OBVIOUS
<1>0. /\ TypeInv /\ req[q] \in Request /\ req \in [Requests -> Request]
      /\ exch \in [OrderKeys -> ExchOrder] /\ exch' \in [OrderKeys -> ExchOrder]
      /\ RequestRow(q) /\ row \in OrderRow
  BY DEF RowsInv, OnceInv, TypeInv, TypeOK, Request
<1>1. /\ req[q].pc \in {"find", "cancel"} /\ req[q].pc \in Owning
      /\ req[q].key \in CancelKeys /\ x \in OrderKeys
      /\ req[q].key \notin OrderKeys /\ OrderOf(q) = x
  BY <1>0, ConstantsAssumption
  DEF Cancel, FindOpen, CancelAcked, CancelLost, CancelRefused, TypeInv,
      WellPlaced, Owning, OrderOf
\* What has to be shown of the request after the step.
<1>2. ASSUME NEW y, req'[q].pc \in {"cancel", "commit"},
             req'[q].key = req[q].key, req'[q].body = x, req'[q].row = y,
             Claims(y, x)', Loaded(req'[q].base, y, x), UNCHANGED <<orders, idem>>,
             req'[q].base.status \in CancelableStatuses
      PROVE  RequestRow(q)'
  BY <1>1, <1>2
  DEF RequestRow, Loaded, Blank, AbsentRow, CancelableStatuses
<1>3. CASE FindOpen(q)
  <2>1. orders[x].status \in CancelableStatuses
    BY <1>1, <1>3 DEF FindOpen
  <2>2. /\ req'[q].pc = "cancel" /\ req'[q].key = req[q].key
        /\ req'[q].body = x /\ req'[q].row = orders[x]
        /\ req'[q].base = orders[x] /\ UNCHANGED <<orders, idem, exch>>
    BY <1>0, <1>1, <1>3 DEF FindOpen, Local, Request
  <2> PICK y : y = orders[x]
    OBVIOUS
  <2>3. Claims(y, x) /\ idem[x] # NoRow
    BY <1>1, <2>1 DEF RowsInv, TableRow, AbsentRow, CancelableStatuses
  <2>4. Claims(y, x)'
    BY <2>2, <2>3 DEF Claims
  <2>5. Loaded(y, y, x)
    BY <2>1, <2>3 DEF Loaded, CancelableStatuses, TerminalStatuses
  <2>6. RequestRow(q)'
    BY <1>2, <2>1, <2>2, <2>4, <2>5
  <2> QED
    BY <1>3, <2>6, LocalRow DEF FindOpen
\* The row a cancel was going to write, and the order it cancels.
<1>4. ASSUME req[q].pc = "cancel"
      PROVE  /\ Claims(row, x) /\ Loaded(base, row, x)
             /\ base.status \in CancelableStatuses
  BY <1>0, <1>1, <1>4 DEF RequestRow
<1>5. ASSUME NEW s \in {"CANCELED", "PENDING_CANCEL"}, CancelledAs(x, s)
      PROVE  /\ exch'[x] = [exch[x] EXCEPT !.status = s]
             /\ exch'[x].status \notin OpenAtBinance \cup {"absent"}
             /\ \A j \in OrderKeys : Ahead(exch[j], exch'[j]) /\ Kept(j)'
  <2>1. /\ exch'[x] = [exch[x] EXCEPT !.status = s]
        /\ \A j \in OrderKeys \ {x} : exch'[j] = exch[j]
    BY <1>0, <1>1, <1>5 DEF CancelledAs
  <2>2. /\ exch'[x].status = s /\ exch'[x].exec = exch[x].exec
        /\ exch'[x].accepted = exch[x].accepted
        /\ exch[x].status \in OpenAtBinance
    BY <1>0, <1>1, <1>5, <2>1 DEF CancelledAs, ExchOrder
  <2>3. Ahead(exch[x], exch'[x])
    <3>1. exch[x].exec <= exch'[x].exec
      BY <1>0, <1>1, <2>2, AheadOfItself DEF Ahead
    <3> QED
      BY <2>2, <3>1 DEF Ahead, OpenAtBinance
  <2>4. Kept(x)'
    BY <1>1, <2>2 DEF RowsInv, Kept, OpenAtBinance
  <2>5. ASSUME NEW j \in OrderKeys \ {x}
        PROVE  Ahead(exch[j], exch'[j]) /\ Kept(j)'
    BY <1>0, <2>1, AheadOfItself DEF RowsInv, Kept
  <2> QED
    BY <2>1, <2>2, <2>3, <2>4, <2>5 DEF OpenAtBinance
<1>6. ASSUME NEW s \in {"CANCELED", "PENDING_CANCEL"}, CancelAcked(q, s)
      PROVE  RowsInv'
  <2>1. /\ CancelledAs(x, s) /\ req[q].pc = "cancel"
        /\ UNCHANGED <<idem, orders, rd>>
    BY <1>1, <1>6 DEF CancelAcked
  <2>2. PICK a \in Answers(exch'[x]) : req' = [req EXCEPT ![q] =
                   IF Mapped(a)
                   THEN Conclude(q, [Reconciled(row, a) EXCEPT !.stamped = TRUE],
                                 "ok")
                   ELSE [req[q] EXCEPT !.pc = "commit", !.out = "raised"]]
    BY <1>0, <1>1, <1>5, <1>6, <2>1 DEF CancelAcked
  <2>3. \A p \in Requests \ {q} : req'[p] = req[p]
    BY <1>0, <2>2
  <2>4. CASE Mapped(a)
    <3> DEFINE y == [Reconciled(row, a) EXCEPT !.stamped = TRUE]
    <3>1. Claims(y, x)'
      BY <1>0, <1>1, <1>5, <2>1, <2>4, PayloadClaims
    <3>2. y.status # "FAILED"
      <4>1. Reconciled(row, a).status = BinanceStatusMap[a.status]
        BY <1>0 DEF Reconciled, OrderRow
      <4>2. BinanceStatusMap[a.status] # "FAILED"
        BY <2>4 DEF Mapped, BinanceStatusMap, BinanceStatus
      <4> QED
        BY <4>1, <4>2
    <3> HIDE DEF y
    <3>3. req'[q] = Conclude(q, y, "ok")
      BY <1>0, <2>2, <2>4 DEF y
    <3>4. /\ req'[q].pc = "commit" /\ req'[q].key = req[q].key
          /\ req'[q].body = x /\ req'[q].row = y /\ req'[q].base = base
      BY <1>0, <3>3, ConcludeFields
    <3>5. Loaded(base, y, x)
      BY <1>4, <2>1, <3>2 DEF Loaded
    <3>6. RequestRow(q)'
      BY <1>2, <1>4, <2>1, <3>1, <3>4, <3>5
    <3> QED
      BY <1>5, <2>1, <2>3, <3>6, HandlerRow
  <2>5. CASE ~Mapped(a)
    <3>1. /\ req'[q].pc = "commit" /\ req'[q].key = req[q].key
          /\ req'[q].body = x /\ req'[q].row = row /\ req'[q].base = base
      BY <1>0, <2>2, <2>5 DEF Request
    <3>2. Claims(row, x)'
      BY <1>0, <1>1, <1>4, <1>5, <2>1, ClaimsKept
    <3>3. RequestRow(q)'
      BY <1>2, <1>4, <2>1, <3>1, <3>2
    <3> QED
      BY <1>5, <2>1, <2>3, <3>3, HandlerRow
  <2> QED
    BY <2>4, <2>5
<1>7. ASSUME req[q].pc = "cancel", req' = [req EXCEPT ![q] = CancelErrorResponse(q)],
             UNCHANGED <<idem, orders, rd>>, Claims(row, x)',
             \A j \in OrderKeys : Ahead(exch[j], exch'[j]) /\ Kept(j)'
      PROVE  RowsInv'
  <2>1. /\ req'[q].pc = "commit" /\ req'[q].key = req[q].key
        /\ req'[q].body = x /\ req'[q].row = row /\ req'[q].base = base
        /\ \A p \in Requests \ {q} : req'[p] = req[p]
    BY <1>0, <1>7 DEF CancelErrorResponse, Request
  <2>2. RequestRow(q)'
    BY <1>2, <1>4, <1>7, <2>1
  <2> QED
    BY <1>7, <2>1, <2>2, HandlerRow
<1>8. ASSUME NEW s \in {"CANCELED", "PENDING_CANCEL"}, CancelLost(q, s)
      PROVE  RowsInv'
  <2>1. CancelledAs(x, s) /\ req[q].pc = "cancel"
    BY <1>1, <1>8 DEF CancelLost
  <2>2. Claims(row, x)'
    BY <1>0, <1>1, <1>4, <1>5, <2>1, ClaimsKept
  <2> QED
    BY <1>5, <1>7, <1>8, <2>1, <2>2 DEF CancelLost
<1>9. CASE CancelRefused(q)
  <2>1. exch' = exch /\ req[q].pc = "cancel"
    BY <1>9 DEF CancelRefused, Local
  <2>2. \A j \in OrderKeys : Ahead(exch[j], exch'[j]) /\ Kept(j)'
    BY <1>0, <2>1, AheadOfItself DEF RowsInv, Kept
  <2>3. Claims(row, x)'
    BY <1>4, <2>1 DEF Claims
  <2> QED
    BY <1>7, <1>9, <2>1, <2>2, <2>3 DEF CancelRefused, Local
<1> QED
  BY <1>3, <1>6, <1>8, <1>9 DEF Cancel

-----------------------------------------------------------------------------
(* The orders table: what is written *)

\* An update of an open row by one of the same order, column by column.
LEMMA FlushClaims ==
    ASSUME NEW k, NEW c \in OrderRow, NEW base \in OrderRow,
           NEW row \in OrderRow, Claims(c, k), Claims(row, k),
           c.status # "FAILED", row.status # "FAILED"
    PROVE  Claims(Flush(c, base, row), k) /\ Flush(c, base, row).status # "FAILED"
<1> DEFINE y == Flush(c, base, row)
<1>1. /\ y.status \in {row.status, c.status} /\ y.exec \in {row.exec, c.exec}
      /\ y.stamped \in {row.stamped, c.stamped}
  BY DEF Flush
<1> HIDE DEF y
<1>2. Claims(y, k) /\ y.status # "FAILED"
  BY <1>1 DEF Claims
<1> QED
  BY <1>2 DEF y

\* An insert, and an update of nothing.
LEMMA FlushWhole ==
    ASSUME NEW row \in OrderRow
    PROVE  /\ Flush(AbsentRow, AbsentRow, row) = row
           /\ Flush(row, AbsentRow, AbsentRow) = row
  BY DEF Flush, OrderRow

LEMMA CommitRow ==
    ASSUME RowsInv, OnceInv', NEW q \in Requests, Commit(q)
    PROVE  RowsInv'
<1> PICK k, x, base, row : /\ k = req[q].key /\ x = OrderOf(q)
                           /\ base = req[q].base /\ row = req[q].row
  OBVIOUS
<1>0. /\ TypeInv /\ TypeInv' /\ req[q] \in Request
      /\ req \in [Requests -> Request] /\ exch \in [OrderKeys -> ExchOrder]
      /\ idem \in [Keys -> IdemRow] /\ orders \in [OrderKeys -> OrderRow]
      /\ RequestRow(q) /\ row \in OrderRow /\ base \in OrderRow
  BY DEF RowsInv, OnceInv, TypeInv, TypeOK, Request
<1>1. /\ req[q].pc = "commit" /\ k \in Keys /\ x \in OrderKeys
      /\ req[q].resp # "absent" /\ idem[k] = NoRow
  BY <1>0, OrderOfType
  DEF Commit, TypeInv, WellPlaced, Owning, RowsInv, OnceInv, Uncommitted
<1>2. /\ \A j \in Keys \ {k} : idem'[j] = idem[j]
      /\ idem'[k] # NoRow
      /\ \A j \in OrderKeys \ {x} : orders'[j] = orders[j]
      /\ orders'[x] = Flush(orders[x], base, row)
      /\ exch' = exch /\ rd' = rd
  BY <1>0, <1>1 DEF Commit, NoRow
<1>3. req'[q].pc = "done" /\ \A p \in Requests \ {q} : req'[p] = req[p]
  BY <1>0 DEF Commit, Request
\* What the order's row becomes.
<1>4. TableRow(x)' /\ (idem[x] # NoRow /\ orders[x].status # "FAILED"
                          => orders'[x].status # "FAILED")
  <2> PICK c : c = orders[x] /\ c \in OrderRow
    BY <1>0, <1>1
  <2>1. Claims(c, x) /\ (idem[x] = NoRow => c = AbsentRow)
    BY <1>1 DEF RowsInv, TableRow
  <2>2. CASE k \in OrderKeys
    <3>1. x = k /\ Claims(row, x) /\ base = AbsentRow /\ c = AbsentRow
      BY <1>0, <1>1, <2>1, <2>2 DEF OrderOf, RequestRow, Owning
    <3>2. orders'[x] = row
      BY <1>0, <1>2, <3>1, FlushWhole
    <3> QED
      BY <1>1, <1>2, <3>1, <3>2 DEF TableRow, Claims
  <2>3. CASE k \notin OrderKeys
    <3>1. x = req[q].body /\ k \in CancelKeys /\ idem'[x] = idem[x]
      BY <1>1, <1>2, <2>3 DEF OrderOf, Keys
    <3>2. CASE Blank(q)
      <4>1. orders'[x] = c
        BY <1>2, <3>2, FlushWhole DEF Blank
      <4> QED
        BY <1>2, <2>1, <3>1, <4>1 DEF TableRow, Claims
    <3>3. CASE ~Blank(q)
      <4>1. Claims(row, x) /\ Loaded(base, row, x)
        BY <1>0, <1>1, <3>1, <3>3 DEF RequestRow, Owning
      <4>2. /\ Claims(Flush(c, base, row), x)
            /\ Flush(c, base, row).status # "FAILED"
        BY <1>0, <2>1, <4>1, FlushClaims DEF Loaded
      <4>3. idem'[x] # NoRow
        BY <3>1, <4>1 DEF Loaded
      <4> PICK y : y = Flush(c, base, row)
        OBVIOUS
      <4> QED
        BY <1>2, <4>2, <4>3 DEF TableRow, Claims
    <3> QED
      BY <3>2, <3>3
  <2> QED
    BY <2>2, <2>3
<1>5. \A j \in OrderKeys : Ahead(exch[j], exch'[j]) /\ Kept(j)'
  BY <1>0, <1>2, AheadOfItself DEF RowsInv, Kept
<1>6. Guarded
  BY <1>1, <1>2, <1>4, <1>5 DEF Guarded, Keys
<1>7. ASSUME NEW j \in OrderKeys \ {x}
      PROVE  TableRow(j)'
  <2>1. j # k
    BY <1>1 DEF OrderOf
  <2> QED
    BY <1>0, <1>2, <1>6, <2>1, TablesRow DEF Keys
<1>8. ASSUME NEW p \in Requests
      PROVE  RequestRow(p)'
  <2>1. CASE p = q
    BY <1>3, <2>1 DEF RequestRow, Owning
  <2>2. CASE p # q
    BY <1>0, <1>3, <1>5, <1>6, <2>2, OthersRow
  <2> QED
    BY <2>1, <2>2
<1>9. \A r \in Readers : ReaderRow(r)'
  BY <1>0, <1>2, <1>6, ReadersRow
<1> QED
  BY <1>4, <1>5, <1>7, <1>8, <1>9 DEF RowsInv

LEMMA ReadRow ==
    ASSUME RowsInv, OnceInv', NEW r \in Readers,
           Read(r) \/ AbortRead(r) \/ \E k \in OrderKeys : Load(r, k)
    PROVE  RowsInv'
<1>0. /\ TypeInv /\ TypeInv' /\ rd[r] \in Reader
      /\ rd \in [Readers -> Reader] /\ exch \in [OrderKeys -> ExchOrder]
      /\ orders \in [OrderKeys -> OrderRow]
      /\ UNCHANGED <<idem, exch, req>>
      /\ \A x \in Readers \ {r} : rd'[x] = rd[x]
  BY DEF RowsInv, OnceInv, TypeInv, TypeOK, Read, Fetch, ReadEnds, Write,
         AbortRead, Load
<1>1. \A j \in OrderKeys : Ahead(exch[j], exch'[j]) /\ Kept(j)'
  BY <1>0, AheadOfItself DEF RowsInv, Kept
\* It suffices that the reader's row and the tables stay true.
<1>2. ASSUME ReaderRow(r)', Guarded, \A k \in OrderKeys : TableRow(k)'
      PROVE  RowsInv'
  <2>1. \A p \in Requests : RequestRow(p)'
    BY <1>0, <1>1, <1>2, OthersRow DEF TypeInv, WellPlaced
  <2>2. \A x \in Readers \ {r} : ReaderRow(x)'
    BY <1>0, <1>2, ReadersRow
  <2> QED
    BY <1>1, <1>2, <2>1, <2>2 DEF RowsInv
<1>3. ASSUME orders' = orders, ReaderRow(r)'
      PROVE  RowsInv'
  <2>1. Guarded
    BY <1>0, <1>1, <1>3 DEF Guarded
  <2>2. \A k \in OrderKeys : TableRow(k)'
    BY <1>0, <1>3, <2>1, TablesRow
  <2> QED
    BY <1>2, <1>3, <2>1, <2>2
<1>4. CASE AbortRead(r) \/ ReadEnds(r)
  <2>1. rd'[r].pc = "idle" /\ orders' = orders
    BY <1>0, <1>4 DEF AbortRead, ReadEnds, NotReading
  <2> QED
    BY <1>3, <2>1 DEF ReaderRow
<1>5. ASSUME NEW k \in OrderKeys, Load(r, k)
      PROVE  RowsInv'
  <2> PICK y : y = orders[k]
    OBVIOUS
  <2>1. /\ rd'[r].key = k /\ rd'[r].base = y /\ rd'[r].row = y
        /\ orders' = orders /\ y.status \notin TerminalStatuses \cup {"absent"}
    BY <1>0, <1>5 DEF Load
  <2>2. Claims(y, k) /\ idem[k] # NoRow
    BY <2>1 DEF RowsInv, TableRow, AbsentRow
  <2>3. Claims(y, k)' /\ Loaded(y, y, k)'
    BY <1>0, <2>1, <2>2 DEF Claims, Loaded, TerminalStatuses
  <2> QED
    BY <1>3, <2>1, <2>3 DEF ReaderRow
<1> PICK k, base, row : k = rd[r].key /\ base = rd[r].base /\ row = rd[r].row
  OBVIOUS
<1>6. ASSUME rd[r].pc # "idle"
      PROVE  /\ k \in OrderKeys /\ row \in OrderRow /\ base \in OrderRow
             /\ Claims(row, k) /\ Loaded(base, row, k)
  BY <1>0, <1>6 DEF RowsInv, ReaderRow, TypeInv, Reader
<1>7. CASE Fetch(r)
  <2>1. /\ k \in OrderKeys /\ row \in OrderRow
        /\ Claims(row, k) /\ Loaded(base, row, k)
        /\ exch'[k] \in ExchOrder /\ exch'[k].status # "absent"
    BY <1>0, <1>6, <1>7 DEF Fetch
  <2>2. PICK a \in Answers(exch'[k]) :
           /\ Mapped(a)
           /\ rd' = [rd EXCEPT ![r] = [rd[r] EXCEPT !.pc = "fetched",
                        !.row = Stamped(Reconciled(row, a))]]
    BY <1>0, <1>7 DEF Fetch
  <2> DEFINE y == Stamped(Reconciled(row, a))
  <2>3. Claims(y, k)'
    BY <1>0, <2>1, <2>2, PayloadClaims DEF Claims, Loaded
  <2>4. y.status # "FAILED"
    <3>1. y.status = BinanceStatusMap[a.status]
      BY <2>1 DEF Stamped, Reconciled, OrderRow
    <3>2. BinanceStatusMap[a.status] # "FAILED"
      BY <2>2 DEF Mapped, BinanceStatusMap, BinanceStatus
    <3> QED
      BY <3>1, <3>2
  <2>5. /\ rd'[r].key = k /\ rd'[r].base = base /\ rd'[r].row = y
        /\ orders' = orders
    BY <1>0, <1>7, <2>2 DEF Fetch, Reader
  <2> HIDE DEF y
  <2>6. Loaded(base, y, k)'
    BY <1>0, <2>1, <2>4, <2>5 DEF Loaded
  <2>7. ReaderRow(r)'
    <3> PICK z : z = y
      OBVIOUS
    <3> QED
      BY <2>3, <2>5, <2>6 DEF ReaderRow, Claims
  <2> QED
    BY <1>3, <2>5, <2>7
<1>8. CASE Write(r)
  <2>1. /\ k \in OrderKeys /\ row \in OrderRow /\ base \in OrderRow
        /\ Claims(row, k) /\ Loaded(base, row, k)
    BY <1>6, <1>8 DEF Write
  <2> PICK c : c = orders[k] /\ c \in OrderRow
    BY <1>0, <2>1
  <2> PICK y : y = Flush(c, base, row)
    OBVIOUS
  <2>2. /\ orders'[k] = y /\ rd'[r].pc = "idle"
        /\ \A j \in OrderKeys \ {k} : orders'[j] = orders[j]
    BY <1>0, <1>8, <2>1 DEF Write, NotReading
  <2>3. /\ Claims(c, k) /\ c.status # "FAILED" /\ idem[k] # NoRow
        /\ row.status # "FAILED"
    BY <2>1 DEF RowsInv, TableRow, Loaded
  <2>4. Claims(y, k) /\ y.status # "FAILED"
    BY <2>1, <2>3, FlushClaims
  <2>5. Guarded
    BY <1>0, <1>1, <2>2, <2>4 DEF Guarded
  <2>6. TableRow(k)'
    BY <1>0, <2>2, <2>3, <2>4 DEF TableRow, Claims
  <2>7. \A j \in OrderKeys \ {k} : TableRow(j)'
    BY <1>0, <2>2, <2>5, TablesRow
  <2>8. ReaderRow(r)'
    BY <2>2 DEF ReaderRow
  <2> QED
    BY <1>2, <2>5, <2>6, <2>7, <2>8
<1> QED
  BY <1>4, <1>5, <1>7, <1>8 DEF Read

\* What Binance does on its own only moves its orders on.
LEMMA ExchangeAhead ==
    ASSUME TypeOK, NEW j \in OrderKeys, Exchange(j), Kept(j),
           exch'[j] \in ExchOrder
    PROVE  Ahead(exch[j], exch'[j]) /\ Kept(j)'
<1>0. exch \in [OrderKeys -> ExchOrder] /\ exch[j] \in ExchOrder
  BY DEF TypeOK
<1> PICK x, y : x = exch[j] /\ y = exch'[j]
  OBVIOUS
<1>1. /\ x.exec \in Nat /\ y.exec \in Nat /\ x.status # "absent"
      /\ x.accepted # 0 /\ y.accepted = x.accepted
      /\ x.exec <= y.exec
      /\ x.status \in OpenAtBinance \/ x.status = "PENDING_CANCEL"
      /\ y.status \notin {"absent", "NEW"} \/ y.status = x.status
      /\ x.status = "PENDING_CANCEL" => y.status \notin OpenAtBinance
  <2>1. x.exec \in Nat /\ y.exec \in Nat
    BY <1>0, ConstantsAssumption DEF ExchOrder
  <2>2. x.status \in OpenAtBinance \/ x.status = "PENDING_CANCEL"
    BY DEF Exchange, Fill, Expire, FinishCancel
  <2>3. x.status # "absent" /\ x.accepted # 0
    BY <2>2 DEF Kept, OpenAtBinance
  <2>4. CASE Fill(j)
    <3>1. /\ y.exec = x.exec + 1 /\ y.accepted = x.accepted
          /\ y.status = IF x.exec + 1 = Lots THEN "FILLED"
                        ELSE IF x.status = "NEW" THEN "PARTIALLY_FILLED"
                        ELSE x.status
      BY <1>0, <2>4 DEF Fill, ExchOrder
    <3> QED
      BY <2>1, <2>2, <2>3, <3>1 DEF OpenAtBinance
  <2>5. ASSUME NEW s \in {"CANCELED", "EXPIRED", "EXPIRED_IN_MATCH"},
               exch' = [exch EXCEPT ![j].status = s]
        PROVE  y.exec = x.exec /\ y.accepted = x.accepted /\ y.status = s
    BY <1>0, <2>5 DEF ExchOrder
  <2>6. CASE FinishCancel(j) \/ \E s \in {"EXPIRED", "EXPIRED_IN_MATCH"} :
                Expire(j, s)
    BY <2>1, <2>2, <2>3, <2>5, <2>6 DEF FinishCancel, Expire, OpenAtBinance
  <2> QED
    BY <2>4, <2>6 DEF Exchange
<1>2. Ahead(x, y)
  BY <1>1 DEF Ahead, OpenAtBinance
<1>3. Kept(j)'
  BY <1>1 DEF Kept, OpenAtBinance
<1> QED
  BY <1>2, <1>3

LEMMA WorldRow ==
    ASSUME RowsInv, OnceInv',
           \/ \E k \in OrderKeys : Exchange(k)
           \/ \E on \in BOOLEAN : SetSwitch(on)
           \/ UNCHANGED vars
    PROVE  RowsInv'
<1>0. /\ TypeInv /\ TypeInv' /\ TypeOK /\ exch \in [OrderKeys -> ExchOrder]
      /\ exch' \in [OrderKeys -> ExchOrder]
  BY DEF RowsInv, OnceInv, TypeInv, TypeOK
<1>1. UNCHANGED <<idem, orders, req, rd>>
  BY DEF Exchange, Fill, Expire, FinishCancel, SetSwitch, vars
<1>2. \A k \in OrderKeys : Ahead(exch[k], exch'[k]) /\ Kept(k)'
  <2>1. ASSUME NEW j \in OrderKeys, exch'[j] = exch[j]
        PROVE  Ahead(exch[j], exch'[j]) /\ Kept(j)'
    BY <1>0, <2>1, AheadOfItself DEF RowsInv, Kept
  <2>2. ASSUME NEW k \in OrderKeys, Exchange(k), NEW j \in OrderKeys \ {k}
        PROVE  exch'[j] = exch[j]
    BY <1>0, <2>2 DEF Exchange, Fill, Expire, FinishCancel
  <2>3. ASSUME NEW k \in OrderKeys, Exchange(k)
        PROVE  Ahead(exch[k], exch'[k]) /\ Kept(k)'
    BY <1>0, <2>3, ExchangeAhead DEF RowsInv
  <2>4. CASE exch' = exch
    BY <2>1, <2>4
  <2> QED
    BY <2>1, <2>2, <2>3, <2>4 DEF SetSwitch, vars
<1>3. Guarded
  BY <1>1, <1>2 DEF Guarded
<1>4. \A p \in Requests : RequestRow(p)'
  BY <1>0, <1>1, <1>2, <1>3, OthersRow DEF TypeInv, WellPlaced
<1>5. \A k \in OrderKeys : TableRow(k)'
  BY <1>0, <1>1, <1>3, TablesRow
<1>6. \A r \in Readers : ReaderRow(r)'
  BY <1>0, <1>1, <1>3, ReadersRow
<1> QED
  BY <1>2, <1>4, <1>5, <1>6 DEF RowsInv

LEMMA StepRows == RowsInv /\ [Next]_vars => RowsInv'
<1> SUFFICES ASSUME RowsInv, [Next]_vars
             PROVE  RowsInv'
  OBVIOUS
<1>1. OnceInv'
  BY StepOnce DEF RowsInv
<1>2. ASSUME NEW q \in Requests, Cancel(q)
      PROVE  RowsInv'
  BY <1>1, <1>2, RowlessRow, CancelRow DEF Cancel
<1>3. ASSUME NEW q \in Requests, Receive(q) \/ Handle(q) \/ Abort(q)
      PROVE  RowsInv'
  BY <1>1, <1>2, <1>3, RowlessRow, PlaceRow, CommitRow DEF Handle
<1> QED
  BY <1>1, <1>3, ReadRow, WorldRow DEF Next

LEMMA RowsAlways == Spec => []RowsInv
  BY InitRows, StepRows, PTL DEF Spec

\* The table never reports an outcome Binance has not reached, nor more than
\* Binance has executed: whatever crashes, is refused or comes back unmapped,
\* and with requests side by side as much as one at a time.
THEOREM RowsTellTruth == Spec => []RowTellsTruth
<1>1. RowsInv => RowTellsTruth
  BY DEF RowsInv, TableRow, Claims, RowTellsTruth
<1> QED
  BY <1>1, RowsAlways, PTL

\* As long as no transaction is lost, an order the table calls rejected was
\* never placed, or rejected by Binance.
THEOREM NoPlacedOrderIsRejected ==
    ASSUME ~MayCrash
    PROVE  Spec => []RejectedNeverPlaced
<1>1. RowsInv => RejectedNeverPlaced
  BY DEF RowsInv, TableRow, Claims, RejectedNeverPlaced
<1> QED
  BY <1>1, RowsAlways, PTL

\* As long as no transaction is lost, terminal_at is set only on what Binance
\* no longer holds open, or on a create that could not be looked up.
THEOREM StampMeansClosed ==
    ASSUME ~MayCrash
    PROVE  Spec => []StampedIsClosed
<1>1. RowsInv => StampedIsClosed
  BY DEF RowsInv, TableRow, Claims, StampedIsClosed
<1> QED
  BY <1>1, RowsAlways, PTL

\* A terminal row changes only under a refresh or a cancel that loaded it
\* while it was open: nothing else writes a row that is already there.
LEMMA RewriteStep ==
    ASSUME RowsInv, [Next]_vars, NEW k \in OrderKeys,
           orders[k].status \in TerminalStatuses, orders'[k] # orders[k]
    PROVE  LoadedOpen(k)
<1>0. /\ TypeInv /\ orders \in [OrderKeys -> OrderRow]
      /\ req \in [Requests -> Request] /\ rd \in [Readers -> Reader]
  BY DEF RowsInv, OnceInv, TypeInv, TypeOK
<1>1. \/ \E r \in Readers : Write(r)
      \/ \E q \in Requests : Commit(q)
  <2>1. ASSUME NEW q \in Requests, Receive(q) \/ Handle(q) \/ Abort(q)
        PROVE  Commit(q) \/ orders' = orders
    BY <2>1
    DEF Receive, ReceiveCreate, ReceiveClose, ReceiveCancel, Abort, Finish,
        Local, Handle, FindPosition, NoPosition, Reserve, Claim, Replay,
        RefuseInProgress, RefuseConflict, Permit, Deny, Place, Approve,
        Reject, InternalError, SubmitAcked, SubmitLost, SubmitRefused,
        ConfirmFound, ConfirmFailed, Cancel, FindMissing, FindClosed,
        FindOpen, CancelAcked, CancelLost, CancelRefused
  <2>2. ASSUME NEW r \in Readers,
               Read(r) \/ AbortRead(r) \/ \E j \in OrderKeys : Load(r, j)
        PROVE  Write(r) \/ orders' = orders
    BY <2>2 DEF Read, Fetch, ReadEnds, AbortRead, Load
  <2> QED
    BY <2>1, <2>2 DEF Next, Exchange, Fill, Expire, FinishCancel, SetSwitch,
                      vars
<1>2. ASSUME NEW r \in Readers, Write(r)
      PROVE  LoadedOpen(k)
  <2>1. rd[r].pc = "fetched" /\ rd[r].key = k
    BY <1>0, <1>2 DEF Write
  <2> QED
    BY <2>1 DEF LoadedOpen, RowsInv, ReaderRow, Loaded
<1>3. ASSUME NEW q \in Requests, Commit(q)
      PROVE  LoadedOpen(k)
  <2>1. /\ req[q].pc = "commit" /\ OrderOf(q) = k /\ req[q] \in Request
        /\ orders'[k] = Flush(orders[k], req[q].base, req[q].row)
        /\ req[q].key \in Keys /\ idem[req[q].key] = NoRow /\ RequestRow(q)
        /\ orders[k] \in OrderRow
    BY <1>0, <1>3
    DEF Commit, RowsInv, OnceInv, Uncommitted, Owning, TypeInv, WellPlaced
  <2>2. req[q].key \notin OrderKeys
    BY <2>1 DEF OrderOf, RowsInv, TableRow, AbsentRow, TerminalStatuses
  <2>3. ~Blank(q)
    BY <2>1, FlushWhole DEF Blank
  <2>4. req[q].base.status \in CancelableStatuses
    BY <2>1, <2>2, <2>3 DEF RequestRow, Owning, Keys
  <2> QED
    BY <2>1, <2>4 DEF LoadedOpen
<1> QED
  BY <1>1, <1>2, <1>3

\* is_terminal_status's "will never change again" holds of every row but those
\* a refresh or a cancel had loaded before it closed, with transactions lost
\* or not.
THEOREM NothingElseRewrites == Spec => OnlyOvertakenRewrite
<1>1. RowsInv /\ [Next]_vars =>
         [ \A k \in OrderKeys :
              orders[k].status \in TerminalStatuses /\ orders'[k] # orders[k]
                  => LoadedOpen(k) ]_vars
  BY RewriteStep
<1> QED
  BY <1>1, RowsAlways, PTL DEF Spec, OnlyOvertakenRewrite

=============================================================================
