------------------------ MODULE BotLifecycle_proofs ------------------------
(***************************************************************************)
(* Theorems about BotLifecycle for every set of keys, of requests in       *)
(* progress and of target quantities: the book of a bot agrees with its    *)
(* orders, a bot sells no more than it bought, and one that is left in the *)
(* middle of a transition can be told from its keys.                       *)
(***************************************************************************)
EXTENDS BotLifecycle, TLAPS

-----------------------------------------------------------------------------
(* The inductive invariant *)

Owning == {"lock"} \cup Locking
Transitions == {"pause", "resume"}

\* What a request's position says of its key and of the row it decided on.
WellPlaced(r) ==
    /\ r.pc # "idle" => r.key \in Keys /\ (r.key[1] \in {"create", "update"} => r.arg # 0)
    /\ r.pc \in Owning => r.resp # "absent"
    /\ r.pc \in {"lock", "order", "reconcile"} => r.resp = "PROCESSING"
    /\ r.pc # "commit" => r.fill = 0
    /\ r.pc \in {"order", "reconcile"} => r.key[1] \in Transitions
    /\ r.pc \in Locking => (r.row.status = "absent" => r.row = NoBot)
    /\ r.pc \in Locking => (r.row.status # "absent" => r.row.target # 0)
    /\ r.pc \in {"order", "reconcile"} => r.row.status # "absent"

TypeInv ==
    /\ TypeOK
    /\ \A q \in Slots : WellPlaced(req[q])
    /\ IF bot.status = "absent" THEN bot = NoBot ELSE bot.target # 0

\* At most one transaction owns a key, whose row is not committed before it is.
KeysOwned ==
    /\ \A p, q \in Slots :
          p # q /\ req[p].pc \in Owning /\ req[q].pc \in Owning =>
              req[p].key # req[q].key
    /\ \A q \in Slots : req[q].pc \in Owning => idem[req[q].key] = "absent"

\* At most one transaction has the bot's row locked; creating it needs no lock.
RowLocked ==
    \A p, q \in Slots :
        /\ p # q /\ req[p].pc \in Locking /\ req[q].pc \in Locking
        => OpOf(p) = "create" \/ OpOf(q) = "create"

Created == \E k \in Keys : k[1] = "create" /\ idem[k] # "absent"

\* Before the bot exists there is nothing to be decided about it.
NotYetCreated ==
    ~Created =>
        /\ bot = NoBot /\ held = 0
        /\ \A k \in TransitionKeys : trade[k] = NoTrade
        /\ \A q \in Slots :
              /\ req[q].pc \notin {"order", "reconcile"}
              /\ req[q].pc = "commit" /\ OpOf(q) # "create" =>
                    req[q].row = NoBot /\ req[q].resp = "REJECTED"
              /\ req[q].pc = "commit" => req[q].fill = 0

\* Binance has an order that counts in held, and it may execute further.
Known(k) == trade[k] # NoTrade /\ ~trade[k].lost
Alive(k) == trade[k].open /\ ~trade[k].lost

NoneOpen == \A k \in TransitionKeys : ~Alive(k)

\* A bot in a working status has closed orders only, and its book is right.
Balanced(b, h) ==
    b.status \in {"ACTIVE", "PAUSED"} =>
        b.current = h /\ (b.status = "PAUSED" => h = 0) /\ NoneOpen

\* The transition of q has called Binance and is not over.
Called(q) ==
    /\ req[q].pc \in {"reconcile", "commit"} /\ OpOf(q) \in Transitions
    /\ Known(req[q].key)

Quiet == \A q \in Slots : ~Called(q)

\* A retry that takes a lost order of another quantity for the one it needs.
Mistaken(r) ==
    r.key[1] \in Transitions /\ trade[r.key].lost /\ r.resp = "DONE"

\* The order of an open transaction is what held differs by from the committed
\* book: losing the transaction leaves the book right.
Outstanding(k) ==
    /\ bot.status = Prior[k[1]]
    /\ held = bot.current + Signed(k[1], trade[k].exec)
    /\ trade[k].qty = IF k[1] = "pause" THEN bot.current ELSE bot.target
    /\ bot.status = "PAUSED" => bot.current = 0
    /\ \A j \in TransitionKeys \ {k} : ~Alive(j)

\* What one open transaction owes to the book.
OwedBy(r) ==
    /\ r.pc \in {"order", "reconcile"} =>
          /\ bot.status = Prior[r.key[1]]
          /\ r.row = [bot EXCEPT !.status = InProgress[r.key[1]]]
    /\ r.pc = "reconcile" => trade[r.key] # NoTrade
    /\ r.pc \in {"reconcile", "commit"} /\ r.key[1] \in Transitions =>
          (Known(r.key) => Outstanding(r.key) /\ r.row # NoBot)
    /\ r.pc = "commit" /\ ~Mistaken(r) =>
          /\ Balanced(r.row, held + r.fill)
          /\ held + r.fill >= 0
          /\ r.fill # 0 => r.row.status \in {"ACTIVE", "PAUSED"}

\* An order is known to the request that placed it until its key is committed.
Traced ==
    \A k \in TransitionKeys :
        Known(k) =>
            \/ idem[k] # "absent"
            \/ \E q \in Slots : req[q].key = k /\ req[q].pc \in {"reconcile", "commit"}

\* What is held covers the one sale that may still execute.
Covered ==
    /\ held >= 0
    /\ \A k \in TransitionKeys :
          /\ trade[k].exec <= trade[k].qty
          /\ trade[k].open => trade[k].exec < trade[k].qty
    /\ \A j, k \in TransitionKeys : Alive(j) /\ Alive(k) => j = k
    /\ \A k \in TransitionKeys :
          Alive(k) /\ k[1] = "pause" => trade[k].qty - trade[k].exec <= held

Frame == TypeInv /\ KeysOwned /\ RowLocked /\ NotYetCreated

BookInv ==
    /\ Frame
    /\ NoneMistaken =>
          /\ Quiet => Balanced(bot, held)
          /\ \A q \in Slots : OwedBy(req[q])
          /\ Traced /\ Covered

InTransit == {"PAUSING", "RESUMING"}

\* A bot found in a transition and a key that was never answered come together.
Visible ==
    /\ bot.status \in InTransit => MayMisread /\ Unanswered # {}
    /\ \A k \in Unanswered : bot.status = InProgress[k[1]]

\* A transaction leaves a bot alone that it found in a transition, and writes
\* such a status only with the key that says so.
RowVisible(r) ==
    r.pc \in Locking =>
        IF bot.status \in InTransit
        THEN r.pc = "commit" /\ r.row.status = bot.status /\ r.resp # "PROCESSING"
        ELSE /\ r.row.status \in InTransit => r.resp = "PROCESSING"
             /\ r.resp = "PROCESSING" =>
                   /\ r.key[1] \in Transitions
                   /\ r.row.status = InProgress[r.key[1]]
                   /\ r.pc = "commit" => MayMisread

StuckInv ==
    /\ BookInv
    /\ Visible
    /\ \A q \in Slots : RowVisible(req[q])

-----------------------------------------------------------------------------
(* Keys and types *)

LEMMA KeyFacts ==
    /\ \A k \in Keys : k[1] \in Ops
    /\ \A q \in Slots : KeysOf(q) \subseteq Keys
    /\ \A k \in TransitionKeys : k \in Keys /\ k[1] \in Transitions
    /\ \A k \in Keys : k[1] \in Transitions => k \in TransitionKeys
    /\ \A j, k \in Keys : j[1] = "create" /\ k[1] = "create" => j = k
<1>1. \A q \in Slots : \A k \in KeysOf(q) :
         k[1] \in Ops /\ k[2] \in IdsOf[q][k[1]] /\ k = <<k[1], k[2]>>
  BY DEF KeysOf
<1>2. \A k \in Keys : \E q \in Slots : k \in KeysOf(q)
  BY DEF Keys
<1>3. \A j, k \in Keys : j[1] = "create" /\ k[1] = "create" => j = k
  BY <1>1, <1>2, BotAssumption
<1>4. \A q \in Slots : KeysOf(q) \subseteq Keys
  BY DEF Keys
<1> QED
  BY <1>1, <1>2, <1>3, <1>4 DEF TransitionKeys, Transitions

LEMMA QuantitiesAreNat == Quantities \subseteq Nat
  BY BotAssumption DEF Quantities

LEMMA InitBook == Init => BookInv /\ StuckInv
<1> SUFFICES ASSUME Init
             PROVE  BookInv /\ StuckInv
  OBVIOUS
<1>1. NoBot \in Bot /\ Idle \in Request /\ NoTrade \in Trade
  BY DEF NoBot, Bot, Idle, Request, NoTrade, Trade, Quantities, Status,
              PCs, Locking
<1>2. TypeOK
  BY <1>1, KeyFacts DEF Init, TypeOK
<1>3. bot = NoBot /\ \A q \in Slots : /\ req[q].pc = "idle"
                                    /\ req[q].key = <<>> /\ req[q].fill = 0
  BY DEF Init, Idle
<1>4. TypeInv
  BY <1>2, <1>3 DEF TypeInv, WellPlaced, Owning, Locking, NoBot
<1>5. \A k \in TransitionKeys : ~trade[k].lost /\ ~trade[k].open /\ trade[k].exec = 0 /\ trade[k].qty = 0
  BY DEF Init, NoTrade
<1>6. KeysOwned /\ RowLocked
  BY <1>3 DEF KeysOwned, RowLocked, Owning, Locking
<1>7. NotYetCreated /\ \A q \in Slots : OwedBy(req[q])
  BY <1>3 DEF NotYetCreated, OwedBy, Init
<1>8. Traced /\ Covered /\ Balanced(bot, held)
  BY <1>3, <1>5 DEF Traced, Covered, Balanced, Known, Alive, Init, NoBot
<1>9. Visible
  <2>1. Unanswered = {}
    BY KeyFacts DEF Unanswered, Init
  <2> QED
    BY <1>3, <2>1 DEF Visible, InTransit, NoBot
<1>10. StuckInv
  BY <1>3, <1>4, <1>6, <1>7, <1>8, <1>9
  DEF StuckInv, BookInv, Frame, RowVisible, Locking
<1> QED
  BY <1>10 DEF StuckInv

\* What an order's outcome makes of a transition's request.
Reshaped(q, r) ==
    /\ r \in Request /\ r.key = req[q].key /\ r.arg = req[q].arg
    /\ r.pc = "commit" /\ r.fill = req[q].fill
    /\ r.resp \in {"DONE", "REJECTED", "ERROR"}
    /\ r.row.mode = req[q].row.mode /\ r.row.target = req[q].row.target

\* The row the outcome leaves the bot with.
Outcome(q, outcome, row) ==
    /\ outcome \in {"DISABLED", "REJECTED"} =>
          row.status = Prior[OpOf(q)] /\ row.current = req[q].row.current
    /\ outcome = "FILLED" /\ OpOf(q) = "pause" =>
          row.status = "PAUSED" /\ row.current = 0
    /\ outcome = "FILLED" /\ OpOf(q) = "resume" =>
          row.status = "ACTIVE" /\ row.current = req[q].row.target
    /\ outcome \notin {"DISABLED", "REJECTED", "FILLED"} => row.status = "ERROR"

LEMMA ConcludedShape ==
    ASSUME NEW q \in Slots, req[q] \in Request, OpOf(q) \in Transitions,
           req[q].row.target \in Quantities, NEW outcome
    PROVE  /\ Reshaped(q, Concluded(q, outcome))
           /\ Outcome(q, outcome, Concluded(q, outcome).row)
<1> PICK op, row : op = OpOf(q) /\ row = req[q].row
  OBVIOUS
<1>0. /\ op \in {"pause", "resume"} /\ row \in Bot
      /\ row.target \in Quantities /\ 0 \in Quantities
  BY DEF Request, Transitions, Quantities
<1> DEFINE Built(s, n, a) ==
       [pc |-> "commit", key |-> req[q].key, arg |-> req[q].arg,
        row |-> [row EXCEPT !.status = s, !.current = n],
        fill |-> req[q].fill, resp |-> a]
<1>1. ASSUME NEW s \in {"ACTIVE", "PAUSED", "ERROR"}, NEW n \in Quantities,
             NEW a \in {"DONE", "REJECTED", "ERROR"}
      PROVE  /\ Reshaped(q, Built(s, n, a))
             /\ Built(s, n, a).row.status = s /\ Built(s, n, a).row.current = n
  <2>1. PICK y : y = [row EXCEPT !.status = s, !.current = n]
    OBVIOUS
  <2>2. /\ y \in Bot /\ y.status = s /\ y.current = n
        /\ y.mode = row.mode /\ y.target = row.target
    BY <1>0, <2>1 DEF Bot, Status
  <2>3. Built(s, n, a) \in Request /\ Built(s, n, a).row = y
    BY <1>1, <2>1, <2>2 DEF Request, PCs, Locking, Answers
  <2> QED
    BY <1>1, <2>2, <2>3 DEF Reshaped
<1>2. ASSUME NEW s \in {"ACTIVE", "PAUSED", "ERROR"},
             NEW a \in {"DONE", "REJECTED", "ERROR"}
      PROVE  /\ Ended(q, s, a) = Built(s, row.current, a)
             /\ \A n \in Quantities :
                   [Ended(q, s, a) EXCEPT !.row.current = n] = Built(s, n, a)
  <2> PICK y : y = [row EXCEPT !.status = s]
    OBVIOUS
  <2>1. Ended(q, s, a) = [req[q] EXCEPT !.pc = "commit", !.resp = a,
                                        !.row = y]
    BY DEF Ended
  <2>2. Ended(q, s, a) = [pc |-> "commit", key |-> req[q].key,
                          arg |-> req[q].arg, row |-> y,
                          fill |-> req[q].fill, resp |-> a]
    BY <2>1 DEF Request
  <2>3. /\ y = [row EXCEPT !.status = s, !.current = row.current]
        /\ \A n : [y EXCEPT !.current = n]
                     = [row EXCEPT !.status = s, !.current = n]
    BY <1>0 DEF Bot
  <2>4. Ended(q, s, a) = Built(s, row.current, a)
    BY <2>2, <2>3
  <2>5. ASSUME NEW n \in Quantities
        PROVE  [Ended(q, s, a) EXCEPT !.row.current = n] = Built(s, n, a)
    <3>1. [Ended(q, s, a) EXCEPT !.row.current = n] =
             [pc |-> "commit", key |-> req[q].key, arg |-> req[q].arg,
              row |-> [y EXCEPT !.current = n], fill |-> req[q].fill,
              resp |-> a]
      BY <2>2
    <3> QED
      BY <2>3, <3>1
  <2> QED
    BY <2>4, <2>5
<1> HIDE DEF Built
<1>3. CASE outcome \in {"DISABLED", "REJECTED"}
  <2>1. Concluded(q, outcome) = Ended(q, Prior[op], "REJECTED")
    BY <1>3 DEF Concluded, RevertedEnd
  <2>2. Prior[op] \in {"ACTIVE", "PAUSED"}
    BY <1>0 DEF Prior
  <2> QED
    BY <1>0, <1>1, <1>2, <1>3, <2>1, <2>2 DEF Bot, Outcome
<1>4. CASE outcome = "FILLED" /\ op = "pause"
  <2>1. Concluded(q, outcome) =
           [Ended(q, "PAUSED", "DONE") EXCEPT !.row.current = 0]
    BY <1>4 DEF Concluded, FilledEnd
  <2>2. Concluded(q, outcome) = Built("PAUSED", 0, "DONE")
    BY <1>0, <1>2, <2>1
  <2> QED
    BY <1>0, <1>1, <1>4, <2>2 DEF Outcome
<1>6. CASE outcome = "FILLED" /\ op # "pause"
  <2>1. Concluded(q, outcome) =
           [Ended(q, "ACTIVE", "DONE") EXCEPT !.row.current = row.target]
    BY <1>6 DEF Concluded, FilledEnd
  <2>2. Concluded(q, outcome) = Built("ACTIVE", row.target, "DONE")
    BY <1>0, <1>2, <2>1
  <2> QED
    BY <1>0, <1>1, <1>6, <2>2 DEF Outcome
<1>5. CASE outcome \notin {"DISABLED", "REJECTED", "FILLED"}
  <2>1. Concluded(q, outcome) = Ended(q, "ERROR", "ERROR")
    BY <1>5 DEF Concluded, ErrorEnd
  <2> QED
    BY <1>0, <1>1, <1>2, <1>5, <2>1 DEF Bot, Outcome
<1> QED
  BY <1>3, <1>4, <1>5, <1>6

-----------------------------------------------------------------------------
(* The frame: types, the ownership of keys and of the bot's row *)

LEMMA LocalType ==
    ASSUME TypeInv, NEW q \in Slots, NEW r \in Request, WellPlaced(r),
           req' = [req EXCEPT ![q] = r], UNCHANGED <<bot, idem>>,
           trade' \in [TransitionKeys -> Trade], held' \in Int
    PROVE  TypeInv'
<1>1. req \in [Slots -> Request]
  BY DEF TypeInv, TypeOK
<1>2. req'[q] = r /\ \A p \in Slots \ {q} : req'[p] = req[p]
  BY <1>1
<1>3. TypeOK'
  BY <1>1 DEF TypeInv, TypeOK
<1> QED
  BY <1>2, <1>3 DEF TypeInv, WellPlaced

\* A step that replaces the request of q, and else at most trades, leaves keys
\* and row with the transactions that own them.
LEMMA MoveFrame ==
    ASSUME Frame, NEW q \in Slots, NEW r \in Request, WellPlaced(r),
           req' = [req EXCEPT ![q] = r], UNCHANGED <<bot, idem>>,
           trade' \in [TransitionKeys -> Trade], held' \in Int,
           r.pc \in Owning => /\ r.key = req[q].key
                              /\ req[q].pc \in Owning \/ Reserve(q),
           r.pc \in Locking /\ req[q].pc \notin Locking =>
               OpOf(q) = "create" \/ Locked(q),
           ~Created => /\ UNCHANGED <<trade, held>>
                       /\ r.pc \notin {"order", "reconcile"}
                       /\ r.pc = "commit" /\ r.key[1] # "create" =>
                             r.row = NoBot /\ r.resp = "REJECTED"
                       /\ r.pc = "commit" => r.fill = 0
    PROVE  Frame'
<1>0. TypeInv /\ req \in [Slots -> Request]
  BY DEF Frame, TypeInv, TypeOK
<1>1. TypeInv'
  BY <1>0, LocalType
<1>2. /\ req'[q] = r /\ \A p \in Slots \ {q} : req'[p] = req[p]
      /\ UNCHANGED <<bot, idem>>
  BY <1>0
<1>3. KeysOwned'
  <2>1. ASSUME NEW p \in Slots \ {q}, req[p].pc \in Owning, r.pc \in Owning
        PROVE  req[p].key # r.key
    <3>1. CASE req[q].pc \in Owning
      BY <2>1, <3>1 DEF Frame, KeysOwned
    <3>2. CASE Reserve(q)
      BY <2>1, <3>2 DEF Reserve, Owning, Locking
    <3> QED
      BY <2>1, <3>1, <3>2
  <2>2. r.pc \in Owning => idem[r.key] = "absent"
    BY DEF Frame, KeysOwned, Reserve
  <2> QED
    BY <1>2, <2>1, <2>2 DEF Frame, KeysOwned
<1>4. RowLocked'
  <2>1. ASSUME NEW p \in Slots \ {q}, req[p].pc \in Locking, r.pc \in Locking
        PROVE  OpOf(p) = "create" \/ r.key[1] = "create"
    <3>1. r.key = req[q].key
      BY <2>1 DEF Owning
    <3>2. CASE req[q].pc \in Locking
      BY <2>1, <3>1, <3>2 DEF Frame, RowLocked, OpOf
    <3>3. CASE Locked(q)
      BY <2>1, <3>3 DEF Locked
    <3> QED
      BY <2>1, <3>1, <3>2, <3>3 DEF OpOf
  <2> QED
    BY <1>2, <2>1 DEF Frame, RowLocked, OpOf
<1>5. NotYetCreated'
  BY <1>2 DEF Frame, NotYetCreated, Created, OpOf
<1> QED
  BY <1>1, <1>3, <1>4, <1>5 DEF Frame

LEMMA LocalFrame ==
    ASSUME Frame, NEW q \in Slots, NEW r \in Request, WellPlaced(r),
           Local(q, r),
           r.pc \in Owning => /\ r.key = req[q].key
                              /\ req[q].pc \in Owning \/ Reserve(q),
           r.pc \in Locking /\ req[q].pc \notin Locking =>
               OpOf(q) = "create" \/ Locked(q),
           ~Created => /\ r.pc \notin {"order", "reconcile"}
                       /\ r.pc = "commit" /\ r.key[1] # "create" =>
                             r.row = NoBot /\ r.resp = "REJECTED"
                       /\ r.pc = "commit" => r.fill = 0
    PROVE  Frame'
  BY MoveFrame DEF Local, Frame, TypeInv, TypeOK

-----------------------------------------------------------------------------
(* The book *)

LEMMA LocalBook ==
    ASSUME BookInv, Frame', NEW q \in Slots, NEW r, Local(q, r),
           req[q].pc \in {"reconcile", "commit"} =>
               r.pc \in {"reconcile", "commit"} /\ r.key = req[q].key,
           NoneMistaken => OwedBy(r)
    PROVE  BookInv'
<1>1. req \in [Slots -> Request]
  BY DEF BookInv, Frame, TypeInv, TypeOK
<1>2. /\ req'[q] = r /\ \A p \in Slots \ {q} : req'[p] = req[p]
      /\ UNCHANGED <<bot, idem, trade, held>>
  BY <1>1 DEF Local
<1>3. NoneMistaken' = NoneMistaken
  BY <1>2 DEF NoneMistaken
<1>4. ASSUME NoneMistaken
      PROVE  /\ Quiet' => Balanced(bot, held)'
             /\ \A p \in Slots : OwedBy(req[p])'
             /\ Traced' /\ Covered'
  <2>1. Quiet' => Quiet
    BY <1>2 DEF Quiet, Called, Known, OpOf
  <2>2. Balanced(bot, held)' = Balanced(bot, held)
    BY <1>2 DEF Balanced, NoneOpen, Alive
  <2>3. ASSUME NEW p \in Slots
        PROVE  OwedBy(req[p])'
    <3> PICK x : x = req'[p]
      OBVIOUS
    <3>1. OwedBy(x)
      BY <1>2, <1>4 DEF BookInv
    <3>2. OwedBy(x)'
      BY <1>2, <3>1 DEF OwedBy, Balanced, NoneOpen, Known, Alive, Outstanding,
                        Mistaken
    <3> QED
      BY <3>2
  <2>4. Traced' /\ Covered'
    BY <1>2, <1>4 DEF BookInv, Traced, Covered, Known, Alive
  <2> QED
    BY <1>4, <2>1, <2>2, <2>3, <2>4 DEF BookInv
<1> QED
  BY <1>3, <1>4 DEF BookInv

\* A request that has not decided anything owes nothing.
LEMMA EarlyBook ==
    ASSUME BookInv, NEW q \in Slots,
           \/ \E k \in KeysOf(q), target \in Quantities : Receive(q, k, target)
           \/ Reserve(q) \/ Repeat(q)
    PROVE  BookInv'
<1>0. /\ req[q] \in Request /\ WellPlaced(req[q]) /\ Frame
  BY DEF BookInv, Frame, TypeInv, TypeOK
<1>1. ASSUME NEW r \in Request, WellPlaced(r), Local(q, r),
             r.pc \in {"idle", "reserve", "lock"},
             r.pc = "lock" => r.key = req[q].key /\ Reserve(q),
             req[q].pc \notin {"reconcile", "commit"}
      PROVE  BookInv'
  <2>1. Frame'
    BY <1>0, <1>1, LocalFrame DEF Owning, Locking
  <2>2. OwedBy(r)
    BY <1>1 DEF OwedBy
  <2> QED
    BY <1>1, <2>1, <2>2, LocalBook
<1>2. /\ Idle \in Request /\ Idle.pc = "idle" /\ Idle.row = NoBot
      /\ Idle.fill = 0 /\ Idle.key = <<>> /\ Idle.resp = "absent"
      /\ NoBot \in Bot
  BY DEF NoBot, Bot, Idle, Request, Quantities, Status, PCs, Locking
<1>3. ASSUME NEW k \in Keys, NEW target \in Quantities, Receive(q, k, target)
      PROVE  BookInv'
  <2> PICK r : r = [Idle EXCEPT !.pc = "reserve", !.key = k, !.arg = target]
    OBVIOUS
  <2>1. /\ r.pc = "reserve" /\ r.key = k /\ r.arg = target
        /\ r.fill = 0 /\ r \in Request
    BY <1>2 DEF Idle, Request, PCs
  <2>2. WellPlaced(r)
    BY <1>3, <2>1 DEF Receive, WellPlaced, Owning, Locking
  <2> QED
    BY <1>1, <1>3, <2>1, <2>2 DEF Receive, InFlight
<1>4. CASE Reserve(q)
  <2> PICK r : r = [req[q] EXCEPT !.pc = "lock", !.resp = "PROCESSING"]
    OBVIOUS
  <2>1. /\ r.pc = "lock" /\ r.key = req[q].key /\ r.resp = "PROCESSING"
        /\ r.fill = req[q].fill /\ r.arg = req[q].arg /\ r \in Request
    BY <1>0 DEF Request, PCs, Answers
  <2>2. req[q].fill = 0
    BY <1>0, <1>4 DEF Reserve, WellPlaced
  <2>3. WellPlaced(r)
    BY <1>0, <1>4, <2>1, <2>2 DEF Reserve, WellPlaced, Owning, Locking
  <2> QED
    BY <1>1, <1>4, <2>1, <2>3 DEF Reserve
<1>5. CASE Repeat(q)
  <2>1. WellPlaced(Idle)
    BY <1>2 DEF WellPlaced, Owning, Locking
  <2> QED
    BY <1>1, <1>2, <1>5, <2>1 DEF Repeat
<1> QED
  BY <1>3, <1>4, <1>5, KeyFacts

\* A transaction that decides under the bot's lock, or creates the bot.
LEMMA DecideBook ==
    ASSUME BookInv, NEW q \in Slots, NEW row \in Bot, NEW answer \in Answers,
           Decide(q, row, answer), req[q].pc = "lock",
           OpOf(q) = "create" \/ Locked(q),
           row.status = "absent" => row = NoBot,
           row.status # "absent" => row.target # 0,
           ~Created /\ OpOf(q) # "create" => row = NoBot /\ answer = "REJECTED",
           NoneMistaken /\ Balanced(bot, held) => Balanced(row, held)
    PROVE  BookInv'
<1> PICK r : r = [req[q] EXCEPT !.pc = "commit", !.row = row, !.resp = answer]
  OBVIOUS
<1>0. /\ Frame /\ req[q] \in Request /\ WellPlaced(req[q]) /\ held \in Int
  BY DEF BookInv, Frame, TypeInv, TypeOK
<1>1. /\ r.pc = "commit" /\ r.row = row /\ r.resp = answer
      /\ r.key = req[q].key /\ r.fill = 0 /\ r.arg = req[q].arg
      /\ r \in Request
  BY <1>0 DEF WellPlaced, Request, PCs, Locking
<1>2. WellPlaced(r) /\ Local(q, r)
  BY <1>0, <1>1 DEF WellPlaced, Owning, Locking, Answers, Decide
<1>3. Frame'
  BY <1>0, <1>1, <1>2, LocalFrame DEF OpOf, Owning, Locking
<1>4. ASSUME NoneMistaken
      PROVE  OwedBy(r)
  <2>1. Quiet
    <3>1. CASE OpOf(q) = "create"
      <4>1. ~Created
        BY <1>0, <3>1, KeyFacts
        DEF Frame, KeysOwned, Owning, Created, WellPlaced, OpOf
      <4> QED
        BY <1>0, <4>1, KeyFacts
        DEF Frame, NotYetCreated, Quiet, Called, Known, TypeInv, WellPlaced,
            OpOf
    <3>2. CASE Locked(q)
      BY <3>2 DEF Locked, Locking, Quiet, Called
    <3> QED
      BY <3>1, <3>2
  <2>2. Balanced(row, held) /\ held >= 0
    BY <1>4, <2>1 DEF BookInv, Covered
  <2>3. r.key[1] \in Transitions => ~Known(r.key)
    <3> SUFFICES ASSUME r.key[1] \in Transitions
                 PROVE  ~Known(r.key)
      OBVIOUS
    <3>1. r.key \in TransitionKeys
      BY <1>0, <1>1, KeyFacts DEF WellPlaced
    <3>2. idem[r.key] = "absent"
      BY <1>0, <1>1 DEF Frame, KeysOwned, Owning
    <3>3. ASSUME NEW p \in Slots, req[p].key = r.key,
                 req[p].pc \in {"reconcile", "commit"}
          PROVE  FALSE
      BY <1>0, <1>1, <3>3 DEF Frame, KeysOwned, Owning, Locking
    <3> QED
      BY <1>4, <3>1, <3>2, <3>3 DEF BookInv, Traced
  <2>4. held + r.fill = held
    BY <1>0, <1>1
  <2> QED
    BY <1>1, <2>2, <2>3, <2>4 DEF OwedBy
<1> QED
  BY <1>2, <1>3, <1>4, LocalBook

\* Where the operations start from.
LEMMA FromFacts ==
    /\ \A op \in Ops \ {"create"} : "absent" \notin From[op]
    /\ \A op \in Transitions : From[op] = {Prior[op]}
    /\ From["update"] = {"PAUSED"}
    /\ \A op \in Ops \ {"create"} : From[op] \cap InTransit = {}
  BY DEF From, Ops, Transitions, Prior, InTransit

LEMMA DecisionsBook ==
    ASSUME BookInv, NEW q \in Slots,
           \/ CreateBot(q) \/ RefuseStatus(q) \/ UpdateBot(q) \/ StopBot(q)
           \/ DeleteBot(q) \/ ActivateLive(q)
    PROVE  BookInv'
<1>0. /\ Frame /\ req[q] \in Request /\ WellPlaced(req[q]) /\ bot \in Bot
      /\ req[q].key \in Keys /\ OpOf(q) \in Ops /\ req[q].pc = "lock"
      /\ IF bot.status = "absent" THEN bot = NoBot ELSE bot.target # 0
      /\ req[q].arg \in Quantities
      /\ {"DONE", "REJECTED"} \subseteq Answers
  BY KeyFacts
  DEF BookInv, Frame, TypeInv, TypeOK, WellPlaced, OpOf, Request, Answers,
      CreateBot, RefuseStatus, UpdateBot, StopBot, DeleteBot, ActivateLive,
      MayStart, Locked
<1>1. ~Created => bot = NoBot /\ held = 0 /\ NoneOpen
  BY <1>0 DEF Frame, NotYetCreated, NoneOpen, Alive, NoTrade
<1>2. NoBot \in Bot /\ NoBot.status = "absent"
  BY DEF NoBot, Bot, Quantities, Status
<1>3. CASE CreateBot(q)
  <2> PICK row : row = [NoBot EXCEPT !.status = "PAUSED", !.target = req[q].arg]
    OBVIOUS
  <2>1. /\ row \in Bot /\ row.status = "PAUSED" /\ row.target = req[q].arg
        /\ row.current = 0
    BY <1>0 DEF NoBot, Bot, Quantities, Status
  <2>2. OpOf(q) = "create" /\ req[q].arg # 0
    BY <1>0, <1>3 DEF CreateBot, WellPlaced, OpOf
  <2>3. ~Created
    BY <1>0, <2>2, KeyFacts DEF Frame, KeysOwned, Owning, Created, OpOf
  <2>4. Balanced(row, held)
    BY <1>1, <2>1, <2>3 DEF Balanced
  <2> QED
    BY <1>0, <1>3, <2>1, <2>2, <2>4, DecideBook DEF CreateBot
<1>4. CASE RefuseStatus(q)
  BY <1>0, <1>1, <1>4, DecideBook DEF RefuseStatus
\* The others start from a bot that exists.
<1>5. ASSUME NEW row \in Bot, NEW answer \in Answers, Decide(q, row, answer),
             NEW op \in Ops \ {"create"}, MayStart(q, op),
             row.status = "absent" => row = NoBot,
             row.status # "absent" => row.target # 0,
             row.status \in {"ACTIVE", "PAUSED"} =>
                 row.status = bot.status /\ row.current = bot.current
      PROVE  BookInv'
  <2>1. bot.status # "absent" /\ Locked(q)
    BY <1>5, FromFacts DEF MayStart
  <2>2. Created
    BY <1>1, <1>2, <2>1
  <2>3. Balanced(bot, held) => Balanced(row, held)
    BY <1>5 DEF Balanced
  <2> QED
    BY <1>0, <1>5, <2>1, <2>2, <2>3, DecideBook
<1>6. CASE UpdateBot(q)
  <2> PICK row : row = [bot EXCEPT !.target = req[q].arg]
    OBVIOUS
  <2>1. /\ row \in Bot /\ row.status = bot.status
        /\ row.target = req[q].arg /\ row.current = bot.current
    BY <1>0 DEF Bot
  <2>2. req[q].arg # 0 /\ bot.status = "PAUSED"
    BY <1>0, <1>6, FromFacts DEF UpdateBot, MayStart, WellPlaced, OpOf
  <2>3. Decide(q, row, "DONE") /\ MayStart(q, "update") /\ "update" \in Ops
    BY <1>6 DEF UpdateBot, Ops
  <2> QED
    BY <1>0, <1>5, <2>1, <2>2, <2>3
<1>7. CASE StopBot(q)
  <2> PICK row : row = [bot EXCEPT !.status = "STOPPED"]
    OBVIOUS
  <2>1. row \in Bot /\ row.status = "STOPPED" /\ row.target = bot.target
    BY <1>0 DEF Bot, Status
  <2>2. bot.status # "absent"
    BY <1>7, FromFacts DEF StopBot, MayStart, Ops
  <2>3. Decide(q, row, "DONE") /\ MayStart(q, "stop") /\ "stop" \in Ops
    BY <1>7 DEF StopBot, Ops
  <2> QED
    BY <1>0, <1>5, <2>1, <2>2, <2>3
<1>8. CASE DeleteBot(q)
  <2>1. Decide(q, NoBot, "DONE") /\ MayStart(q, "delete") /\ "delete" \in Ops
    BY <1>8 DEF DeleteBot, Ops
  <2> QED
    BY <1>0, <1>2, <1>5, <2>1
<1>9. CASE ActivateLive(q)
  <2> PICK row : row = [bot EXCEPT !.mode = "LIVE"]
    OBVIOUS
  <2>1. /\ row \in Bot /\ row.status = bot.status
        /\ row.target = bot.target /\ row.current = bot.current
    BY <1>0 DEF Bot
  <2>2. bot.status # "absent"
    BY <1>9, FromFacts DEF ActivateLive, MayStart, Ops
  <2>3. /\ MayStart(q, "live") /\ "live" \in Ops
        /\ Decide(q, row, "DONE") \/ Decide(q, bot, "REJECTED")
    BY <1>9 DEF ActivateLive, Ops
  <2> QED
    BY <1>0, <1>5, <2>1, <2>2, <2>3
<1> QED
  BY <1>3, <1>4, <1>6, <1>7, <1>8, <1>9

LEMMA StartBook ==
    ASSUME BookInv, NEW q \in Slots, StartTransition(q)
    PROVE  BookInv'
<1> PICK op, r : /\ op = OpOf(q)
                 /\ r = [req[q] EXCEPT !.pc = "order",
                             !.row = [bot EXCEPT !.status = InProgress[op]]]
  OBVIOUS
<1>0. /\ Frame /\ req[q] \in Request /\ WellPlaced(req[q]) /\ bot \in Bot
      /\ IF bot.status = "absent" THEN bot = NoBot ELSE bot.target # 0
  BY DEF BookInv, Frame, TypeInv, TypeOK
<1>1. /\ op \in Transitions /\ req[q].pc = "lock" /\ Locked(q)
      /\ bot.status = Prior[op] /\ Local(q, r)
  <2>1. op \in Transitions /\ MayStart(q, op) /\ Local(q, r)
    BY DEF StartTransition, MayStart, Transitions
  <2> QED
    BY <2>1, FromFacts DEF MayStart, Locked
<1>2. /\ Prior[op] \in {"ACTIVE", "PAUSED"}
      /\ InProgress[op] \in {"PAUSING", "RESUMING"}
  BY <1>1 DEF Prior, InProgress, Transitions
<1> PICK row : row = [bot EXCEPT !.status = InProgress[op]]
  OBVIOUS
<1>3. /\ row \in Bot /\ row.status = InProgress[op]
      /\ row.status # "absent" /\ row.target # 0
  <2>1. /\ row \in Bot /\ row.status = InProgress[op]
        /\ row.target = bot.target
    BY <1>0, <1>2 DEF Bot, Status
  <2> QED
    BY <1>0, <1>1, <1>2, <2>1
<1>4. /\ r \in Request /\ r.pc = "order" /\ r.row = row
      /\ r.key = req[q].key /\ r.arg = req[q].arg /\ r.fill = req[q].fill
      /\ r.resp = req[q].resp
  BY <1>0, <1>3 DEF Request, PCs, Locking
<1>5. WellPlaced(r)
  <2>1. /\ r.key \in Keys /\ r.key[1] = op /\ r.fill = 0
        /\ r.resp = "PROCESSING"
    BY <1>0, <1>1, <1>4 DEF WellPlaced, OpOf, Owning
  <2> QED
    BY <1>1, <1>3, <1>4, <2>1 DEF WellPlaced, Transitions
<1>6. Created
  BY <1>0, <1>1, <1>2 DEF Frame, NotYetCreated, NoBot
<1>7. Frame'
  BY <1>0, <1>1, <1>4, <1>5, <1>6, LocalFrame DEF Owning, Locking
<1>8. OwedBy(r)
  BY <1>1, <1>3, <1>4 DEF OwedBy, OpOf
<1> QED
  BY <1>1, <1>4, <1>7, <1>8, LocalBook

\* A key that is not committed, and whose request has not called Binance, has no
\* order that counts.
LEMMA UnknownAtOrder ==
    ASSUME BookInv, NoneMistaken, NEW q \in Slots, req[q].pc = "order"
    PROVE  ~Known(req[q].key)
<1>0. Frame /\ WellPlaced(req[q])
  BY DEF BookInv, Frame, TypeInv
<1>1. req[q].key \in TransitionKeys
  BY <1>0, KeyFacts DEF WellPlaced
<1>2. idem[req[q].key] = "absent"
  BY <1>0 DEF Frame, KeysOwned, Owning, Locking
<1>3. ASSUME NEW p \in Slots, req[p].key = req[q].key,
             req[p].pc \in {"reconcile", "commit"}
      PROVE  FALSE
  BY <1>0, <1>3 DEF Frame, KeysOwned, Owning, Locking
<1> QED
  BY <1>1, <1>2, <1>3 DEF BookInv, Traced

\* A transition that decides: its row is there to be committed.
LEMMA EndBook ==
    ASSUME BookInv, NEW q \in Slots, req[q].pc \in {"order", "reconcile"},
           NEW r \in Request, Local(q, r), r.pc = "commit",
           r.key = req[q].key, r.arg = req[q].arg, r.resp # "absent",
           r.row.status # "absent", r.row.target # 0,
           NoneMistaken /\ ~Mistaken(r) =>
               /\ Balanced(r.row, held + r.fill)
               /\ held + r.fill >= 0
               /\ r.fill # 0 => r.row.status \in {"ACTIVE", "PAUSED"}
    PROVE  BookInv'
<1>0. Frame /\ WellPlaced(req[q])
  BY DEF BookInv, Frame, TypeInv
<1>1. Created
  BY <1>0 DEF Frame, NotYetCreated
<1>2. WellPlaced(r)
  BY <1>0 DEF WellPlaced, Owning, Locking
<1>3. Frame'
  BY <1>0, <1>1, <1>2, LocalFrame DEF Owning, Locking
<1>4. r.row # NoBot
  BY DEF NoBot
<1>5. ASSUME NoneMistaken, r.key[1] \in Transitions, Known(r.key)
      PROVE  Outstanding(r.key)
  <2>1. CASE req[q].pc = "order"
    BY <1>5, <2>1, UnknownAtOrder
  <2>2. CASE req[q].pc = "reconcile"
    BY <1>5, <2>2 DEF BookInv, OwedBy
  <2> QED
    BY <2>1, <2>2
<1>6. NoneMistaken => OwedBy(r)
  BY <1>4, <1>5 DEF OwedBy
<1> QED
  BY <1>3, <1>6, LocalBook

\* Until the order is submitted the book is as it was found.
LEMMA BookAtOrder ==
    ASSUME BookInv, NoneMistaken, NEW q \in Slots, req[q].pc = "order"
    PROVE  /\ OpOf(q) \in Transitions /\ req[q].key \in TransitionKeys
           /\ bot.status = Prior[OpOf(q)] /\ bot \in Bot
           /\ req[q].row = [bot EXCEPT !.status = InProgress[OpOf(q)]]
           /\ held = bot.current /\ held >= 0 /\ NoneOpen /\ Quiet
           /\ bot.status = "PAUSED" => held = 0
           /\ ~Known(req[q].key) /\ req[q].fill = 0
<1>0. Frame /\ WellPlaced(req[q]) /\ bot \in Bot /\ held \in Int
  BY DEF BookInv, Frame, TypeInv, TypeOK
<1>1. /\ OpOf(q) \in Transitions /\ req[q].key \in TransitionKeys
      /\ req[q].fill = 0
  BY <1>0, KeyFacts DEF WellPlaced, OpOf
<1>2. /\ bot.status = Prior[OpOf(q)]
      /\ req[q].row = [bot EXCEPT !.status = InProgress[OpOf(q)]]
  BY DEF BookInv, OwedBy, OpOf
<1>3. Quiet
  <2> SUFFICES ASSUME NEW p \in Slots, Called(p)
               PROVE  FALSE
    BY DEF Quiet
  <2>1. /\ p # q /\ req[p].pc \in Locking /\ req[q].pc \in Locking
        /\ OpOf(p) # "create" /\ OpOf(q) # "create"
    BY <1>1 DEF Called, Locking, Transitions
  <2> QED
    BY <1>0, <2>1 DEF Frame, RowLocked
<1>4. Balanced(bot, held) /\ held >= 0
  BY <1>3 DEF BookInv, Covered
<1>5. ~Known(req[q].key)
  BY UnknownAtOrder
<1>6. bot.status \in {"ACTIVE", "PAUSED"}
  BY <1>1, <1>2 DEF Prior, Transitions
<1> QED
  BY <1>0, <1>1, <1>2, <1>3, <1>4, <1>5, <1>6 DEF Balanced

\* The outcome of an order, recorded in the request.
LEMMA ConcludeFacts ==
    ASSUME BookInv, NEW q \in Slots, req[q].pc \in {"order", "reconcile"},
           NEW outcome
    PROVE  LET c == Concluded(q, outcome) IN
           /\ c \in Request /\ c.pc = "commit" /\ c.key = req[q].key
           /\ c.arg = req[q].arg /\ c.fill = 0
           /\ c.resp # "absent" /\ c.resp # "PROCESSING"
           /\ c.row.status \in {"ACTIVE", "PAUSED", "ERROR"}
           /\ c.row.target # 0 /\ Outcome(q, outcome, c.row)
           /\ \A f \in Int :
                 LET d == [c EXCEPT !.fill = f] IN
                 /\ d \in Request /\ d.pc = "commit" /\ d.key = req[q].key
                 /\ d.arg = req[q].arg /\ d.resp = c.resp /\ d.fill = f
                 /\ d.row = c.row
<1> PICK c : c = Concluded(q, outcome)
  OBVIOUS
<1>0. /\ req[q] \in Request /\ WellPlaced(req[q]) /\ OpOf(q) \in Transitions
      /\ req[q].row.target # 0 /\ req[q].fill = 0
      /\ req[q].row.target \in Quantities
  BY DEF BookInv, Frame, TypeInv, TypeOK, WellPlaced, OpOf, Locking, Request,
         Bot
<1>1. Reshaped(q, c) /\ Outcome(q, outcome, c.row)
  BY <1>0, ConcludedShape
<1>2. c.row.status \in {"ACTIVE", "PAUSED", "ERROR"}
  <2>1. Prior[OpOf(q)] \in {"ACTIVE", "PAUSED"}
    BY <1>0 DEF Prior, Transitions
  <2> QED
    BY <1>0, <1>1, <2>1 DEF Outcome, Transitions
<1>3. ASSUME NEW f \in Int
      PROVE
      LET d == [c EXCEPT !.fill = f] IN
      /\ d \in Request /\ d.pc = c.pc /\ d.key = c.key
      /\ d.arg = c.arg /\ d.resp = c.resp /\ d.fill = f
      /\ d.row = c.row
  BY <1>1 DEF Reshaped, Request
<1> QED
  BY <1>0, <1>1, <1>2, <1>3 DEF Reshaped

\* What the row becomes when the order has left held as it is, or has filled.
LEMMA BookKept ==
    ASSUME NEW q \in Slots, bot \in Bot, NEW row, NEW outcome,
           OpOf(q) \in Transitions, bot.status = Prior[OpOf(q)],
           req[q].row = [bot EXCEPT !.status = InProgress[OpOf(q)]],
           held = bot.current, bot.status = "PAUSED" => held = 0, NoneOpen,
           Outcome(q, outcome, row), outcome # "FILLED"
    PROVE  Balanced(row, held)
<1>1. req[q].row.current = bot.current
  BY DEF Bot
<1> QED
  BY <1>1 DEF Balanced, Outcome

\* A transition that says the whole quantity was traded says so to its client.
LEMMA FilledIsDone ==
    ASSUME NEW q \in Slots, req[q] \in Request
    PROVE  Concluded(q, "FILLED").resp = "DONE"
<1>1. \A s : LET e == Ended(q, s, "DONE") IN
               \A n : [e EXCEPT !.row.current = n].resp = "DONE"
  BY DEF Ended, Request
<1> QED
  BY <1>1 DEF Concluded, FilledEnd

LEMMA SimulatedBook ==
    ASSUME BookInv, NEW q \in Slots,
           NEW o \in {"DISABLED", "REJECTED", "FAILED", "FILLED", "RAISED"},
           SimulatedOrder(q, o)
    PROVE  BookInv'
<1> PICK c, op : c = Concluded(q, o) /\ op = OpOf(q)
  OBVIOUS
<1> PICK f : f = IF o = "FILLED" THEN Signed(OpOf(q), Quantity(q)) ELSE 0
  OBVIOUS
<1> PICK d : d = [c EXCEPT !.fill = f]
  OBVIOUS
<1>0. /\ req[q].pc = "order" /\ Local(q, d) /\ req[q].row \in Bot
      /\ held \in Int /\ bot \in Bot
  BY DEF SimulatedOrder, BookInv, Frame, TypeInv, TypeOK, Request
<1>1. f \in Int /\ Quantity(q) \in Nat
  <2>1. Quantity(q) \in Nat
    BY <1>0, BotAssumption DEF Quantity, Bot, Quantities
  <2> QED
    BY <2>1 DEF Signed
<1>2. /\ d \in Request /\ d.pc = "commit" /\ d.key = req[q].key
      /\ d.arg = req[q].arg /\ d.resp # "absent" /\ d.fill = f
      /\ d.row.status # "absent" /\ d.row.target # 0
      /\ Outcome(q, o, d.row)
  BY <1>0, <1>1, ConcludeFacts
<1>3. ASSUME NoneMistaken
      PROVE  /\ Balanced(d.row, held + f) /\ held + f >= 0
             /\ f # 0 => d.row.status \in {"ACTIVE", "PAUSED"}
  <2>1. /\ op \in Transitions /\ bot.status = Prior[op]
        /\ req[q].row = [bot EXCEPT !.status = InProgress[op]]
        /\ held = bot.current /\ held >= 0 /\ NoneOpen
        /\ bot.status = "PAUSED" => held = 0
    BY <1>0, <1>3, BookAtOrder
  <2>2. CASE o # "FILLED"
    <3>1. f = 0 /\ held + f = held
      BY <1>0, <2>2
    <3> QED
      BY <1>0, <1>2, <2>1, <2>2, <3>1, BookKept
  <2>3. CASE o = "FILLED" /\ op = "pause"
    <3>1. Quantity(q) = held
      BY <1>0, <2>1, <2>3 DEF Quantity, Bot
    <3>2. held + f = 0
      BY <1>0, <2>3, <3>1 DEF Signed
    <3> QED
      BY <1>2, <2>1, <2>3, <3>2 DEF Balanced, Outcome
  <2>4. CASE o = "FILLED" /\ op = "resume"
    <3>1. held = 0
      BY <2>1, <2>4 DEF Prior
    <3>2. held + f = req[q].row.target /\ held + f >= 0
      BY <1>0, <1>1, <2>4, <3>1 DEF Quantity, Signed
    <3> QED
      BY <1>2, <2>1, <2>4, <3>2 DEF Balanced, Outcome
  <2> QED
    BY <2>1, <2>2, <2>3, <2>4 DEF Transitions
<1> QED
  BY <1>0, <1>2, <1>3, EndBook

LEMMA NotSubmittedBook ==
    ASSUME BookInv, NEW q \in Slots,
           NEW o \in {"DISABLED", "REJECTED", "RAISED"}, NotSubmitted(q, o)
    PROVE  BookInv'
<1> PICK c : c = Concluded(q, o)
  OBVIOUS
<1>0. /\ req[q].pc = "order" /\ Local(q, c) /\ held \in Int /\ bot \in Bot
  BY DEF NotSubmitted, BookInv, Frame, TypeInv, TypeOK, Request
<1>1. /\ c \in Request /\ c.pc = "commit" /\ c.key = req[q].key
      /\ c.arg = req[q].arg /\ c.resp # "absent" /\ c.fill = 0
      /\ c.row.status # "absent" /\ c.row.target # 0
      /\ Outcome(q, o, c.row)
  BY <1>0, ConcludeFacts
<1>2. NoneMistaken => Balanced(c.row, held) /\ held >= 0
  BY <1>0, <1>1, BookAtOrder, BookKept
<1>3. held + c.fill = held
  BY <1>0, <1>1
<1> QED
  BY <1>0, <1>1, <1>2, <1>3, EndBook

LEMMA ReconcileBook ==
    ASSUME BookInv, NEW q \in Slots, Reconcile(q)
    PROVE  BookInv'
<1> PICK k, op : k = req[q].key /\ op = OpOf(q)
  OBVIOUS
<1>0. /\ req[q].pc = "reconcile" /\ held \in Int /\ bot \in Bot
      /\ req[q] \in Request /\ req[q].fill = 0 /\ req[q].key \in Keys
      /\ op \in Transitions /\ op = k[1] /\ k \in TransitionKeys
      /\ req[q].resp = "PROCESSING"
      /\ req[q].row.status # "absent" /\ req[q].row.target # 0
      /\ trade[k] \in Trade
  BY KeyFacts
  DEF Reconcile, BookInv, Frame, TypeInv, TypeOK, WellPlaced, OpOf, Locking
<1>1. ASSUME NoneMistaken
      PROVE  /\ bot.status = Prior[op] /\ held >= 0
             /\ req[q].row = [bot EXCEPT !.status = InProgress[op]]
             /\ trade[k] # NoTrade /\ (Known(k) => Outstanding(k))
             /\ trade[k].open => trade[k].exec < trade[k].qty
             /\ trade[k].exec <= trade[k].qty
  BY <1>0, <1>1 DEF BookInv, OwedBy, Covered
<1>3. ASSUME NEW o \in {"OPEN", StatusOf(trade[k])}, Local(q, Concluded(q, o))
      PROVE  BookInv'
  <2> PICK c : c = Concluded(q, o)
    OBVIOUS
  <2>1. /\ c \in Request /\ c.pc = "commit" /\ c.key = req[q].key
        /\ c.arg = req[q].arg /\ c.resp # "absent" /\ c.fill = 0
        /\ c.row.status # "absent" /\ c.row.target # 0
        /\ Outcome(q, o, c.row)
    BY <1>0, ConcludeFacts
  <2>2. held + c.fill = held
    BY <1>0, <2>1
  <2>3. /\ o = "FILLED" => trade[k].exec = trade[k].qty
        /\ o \notin {"DISABLED", "REJECTED"}
    BY <1>3 DEF StatusOf
  <2>4. ASSUME NoneMistaken, ~Mistaken(c)
        PROVE  Balanced(c.row, held)
    <3>1. CASE o # "FILLED"
      BY <2>1, <2>3, <3>1 DEF Balanced, Outcome
    <3>2. CASE o = "FILLED"
      <4>0. /\ trade[k].qty = IF op = "pause" THEN bot.current ELSE bot.target
            /\ held = bot.current + Signed(op, trade[k].exec)
            /\ bot.status = "PAUSED" => bot.current = 0
            /\ \A j \in TransitionKeys \ {k} : ~Alive(j)
        <5>1. ~trade[k].lost
          BY <1>0, <2>1, <2>4, <3>2, FilledIsDone DEF Mistaken
        <5> QED
          BY <1>0, <1>1, <2>4, <5>1 DEF Known, Outstanding
      <4>1. NoneOpen
        <5>1. trade[k].exec \in Nat /\ trade[k].exec = trade[k].qty
          BY <1>0, <2>3, <3>2 DEF Trade
        <5>2. ~trade[k].open
          BY <1>1, <2>4, <5>1
        <5> QED
          BY <4>0, <5>2 DEF NoneOpen, Alive
      <4>2. CASE op = "pause"
        <5>1. held = 0
          <6>1. held = bot.current - bot.current /\ bot.current \in Nat
            BY <1>0, <2>3, <3>2, <4>0, <4>2, QuantitiesAreNat DEF Signed, Bot
          <6> QED
            BY <6>1
        <5> QED
          BY <2>1, <3>2, <4>1, <4>2, <5>1 DEF Balanced, Outcome
      <4>3. CASE op = "resume"
        <5>1. held = bot.target
          <6>1. bot.current = 0 /\ bot.target \in Nat
            BY <1>0, <1>1, <2>4, <4>0, <4>3, BotAssumption
            DEF Prior, Bot, Quantities
          <6> QED
            BY <2>3, <3>2, <4>0, <4>3, <6>1 DEF Signed
        <5>2. req[q].row.target = bot.target
          BY <1>0, <1>1, <2>4 DEF Bot
        <5> QED
          BY <2>1, <3>2, <4>1, <4>3, <5>1, <5>2 DEF Balanced, Outcome
      <4> QED
        BY <1>0, <4>2, <4>3 DEF Transitions
    <3> QED
      BY <3>1, <3>2
  <2> QED
    BY <1>0, <1>1, <1>3, <2>1, <2>2, <2>4, EndBook
<1> QED
  BY <1>3 DEF Reconcile

\* An exception outside the transition's try block: what was flushed is
\* committed.
LEMMA RaisesBook ==
    ASSUME BookInv, NEW q \in Slots, BalanceRaises(q) \/ ReconcileRaises(q)
    PROVE  BookInv'
<1> PICK r, op : /\ r = [req[q] EXCEPT !.pc = "commit"] /\ op = OpOf(q)
  OBVIOUS
<1>0. /\ req[q].pc \in {"order", "reconcile"} /\ Local(q, r) /\ held \in Int
      /\ bot \in Bot /\ req[q] \in Request /\ req[q].fill = 0
      /\ op \in Transitions /\ req[q].resp = "PROCESSING"
      /\ req[q].row.status # "absent" /\ req[q].row.target # 0
  BY DEF BalanceRaises, ReconcileRaises, BookInv, Frame, TypeInv, TypeOK,
         WellPlaced, OpOf, Locking
<1>1. /\ r \in Request /\ r.pc = "commit" /\ r.key = req[q].key
      /\ r.arg = req[q].arg /\ r.resp # "absent" /\ r.fill = 0
      /\ r.row = req[q].row
  BY <1>0 DEF Request, PCs, Locking
<1>2. held + r.fill = held
  BY <1>0, <1>1
<1>3. ASSUME NoneMistaken
      PROVE  Balanced(r.row, held) /\ held >= 0
  <2>1. req[q].row = [bot EXCEPT !.status = InProgress[op]] /\ held >= 0
    BY <1>0, <1>3 DEF BookInv, OwedBy, Covered, OpOf
  <2>2. r.row.status = InProgress[op]
    BY <1>0, <1>1, <2>1 DEF Bot
  <2>3. r.row.status \notin {"ACTIVE", "PAUSED"}
    BY <1>0, <2>2 DEF InProgress, Transitions
  <2> QED
    BY <2>1, <2>3 DEF Balanced
<1> QED
  BY <1>0, <1>1, <1>2, <1>3, EndBook

\* Once the bot exists, whoever has its row locked is alone.
LEMMA LockedAlone ==
    ASSUME Frame, Created, NEW q \in Slots, req[q].pc \in Locking,
           OpOf(q) # "create", NEW p \in Slots \ {q}
    PROVE  req[p].pc \notin Locking
<1> SUFFICES ASSUME req[p].pc \in Locking
             PROVE  FALSE
  OBVIOUS
<1>1. OpOf(p) = "create"
  BY DEF Frame, RowLocked
<1>2. req[p].key \in Keys /\ idem[req[p].key] = "absent"
  BY DEF Frame, TypeInv, WellPlaced, KeysOwned, Owning, Locking
<1> QED
  BY <1>1, <1>2, KeyFacts DEF Created, OpOf

LEMMA PlusZero == \A i \in Int : i + 0 = i
  OBVIOUS

\* What Binance answers to a new order.
LEMMA NewTradeType ==
    ASSUME NEW n \in Quantities, NEW t \in NewTrades(n)
    PROVE  /\ t \in Trade /\ t.qty = n /\ t.exec \in 0..n /\ ~t.lost
           /\ t.open => t.exec < n
           /\ n \in Nat
<1>1. n \in Nat
  BY BotAssumption DEF Quantities
<1>2. /\ t \in [qty : {n}, exec : 0..n, open : BOOLEAN, lost : {FALSE}]
      /\ t.open => t.exec < n
  BY DEF NewTrades
<1>3. /\ t = [qty |-> t.qty, exec |-> t.exec, open |-> t.open,
               lost |-> t.lost]
      /\ t.qty = n /\ t.exec \in 0..n /\ t.open \in BOOLEAN
      /\ t.lost = FALSE
  BY <1>2
<1>4. t \in Trade
  <2>1. t.exec \in Nat
    BY <1>1, <1>3
  <2>2. t.qty \in Quantities
    BY <1>3
  <2>3. t.lost \in BOOLEAN
    BY <1>3
  <2> QED
    BY <1>3, <2>1, <2>2, <2>3 DEF Trade
<1> QED
  BY <1>1, <1>2, <1>3, <1>4

\* What an order that is new, or found, changes in held.
LEMMA CountedFacts ==
    ASSUME NEW k \in TransitionKeys, NEW t \in Trade
    PROVE  /\ Counted(k, t) \in Int
           /\ t.lost => Counted(k, t) = 0
           /\ t = NoTrade => Counted(k, t) = 0
           /\ ~t.lost => Counted(k, t) = Signed(k[1], t.exec)
           /\ ~t.lost /\ k[1] = "pause" => Counted(k, t) = -t.exec
           /\ ~t.lost /\ k[1] # "pause" => Counted(k, t) = t.exec
           /\ t.exec \in Nat /\ t.qty \in Nat /\ t.open \in BOOLEAN
           /\ t.lost \in BOOLEAN
<1>1. /\ t.exec \in Nat /\ t.qty \in Quantities /\ t.open \in BOOLEAN
      /\ t.lost \in BOOLEAN
  BY DEF Trade
<1>2. t.qty \in Nat
  BY <1>1, QuantitiesAreNat
<1>3. t = NoTrade => t.exec = 0 /\ t.lost = FALSE
  BY DEF NoTrade
<1> QED
  BY <1>1, <1>2, <1>3 DEF Counted, Signed

\* The order that Binance has after the call: new, of the quantity that is
\* traded, or an old one, counted again if it is of that quantity.
LEMMA SentFacts ==
    ASSUME NEW k \in TransitionKeys, trade[k] \in Trade, NEW n \in Quantities,
           NEW q \in Slots, n = Quantity(q),
           NEW t \in IF trade[k] = NoTrade THEN NewTrades(n) \cup {NoTrade}
                     ELSE {Found(q, k)},
           trade[k] = NoTrade \/ trade[k].lost
    PROVE  /\ t \in Trade /\ Counted(k, trade[k]) = 0
           /\ t.lost => t = trade[k]
           /\ t # NoTrade /\ ~t.lost => t.qty = n
           /\ trade[k].exec <= trade[k].qty => t.exec <= t.qty
           /\ (trade[k].open => trade[k].exec < trade[k].qty) =>
                  (t.open => t.exec < t.qty)
<1> PICK x : x = trade[k]
  OBVIOUS
<1>1. Counted(k, x) = 0
  BY CountedFacts
<1>2. CASE x = NoTrade
  <2>1. NoTrade \in Trade /\ ~NoTrade.lost /\ NoTrade.exec = 0
        /\ NoTrade.qty = 0 /\ ~NoTrade.open
    BY DEF NoTrade, Trade, Quantities
  <2>2. CASE t = NoTrade
    BY <1>1, <2>1, <2>2
  <2>3. CASE t \in NewTrades(n)
    <3>1. /\ t \in Trade /\ t.qty = n /\ t.exec \in 0..n /\ ~t.lost
          /\ (t.open => t.exec < n) /\ n \in Nat
      BY <2>3, NewTradeType
    <3>2. t.exec <= t.qty
      BY <3>1
    <3> QED
      BY <1>1, <3>1, <3>2
  <2> QED
    BY <1>2, <2>2, <2>3
<1>3. CASE x # NoTrade
  <2> PICK b : b = (x.lost /\ x.qty # n)
    OBVIOUS
  <2>1. t = [x EXCEPT !.lost = b] /\ b \in BOOLEAN
    BY <1>3 DEF Found, Trade
  <2>2. /\ t \in Trade /\ t.lost = b /\ t.qty = x.qty /\ t.exec = x.exec
        /\ t.open = x.open
    BY <2>1 DEF Trade
  <2>3. ASSUME b
        PROVE  t = x
    BY <2>1, <2>3 DEF Trade
  <2>4. ~b => x.qty = n
    BY <1>3
  <2> QED
    BY <1>1, <2>2, <2>3, <2>4
<1> QED
  BY <1>2, <1>3

LEMMA SubmitBook ==
    ASSUME BookInv, NEW q \in Slots, Submitted(q)
    PROVE  BookInv'
<1> PICK k, op, n, x : /\ k = req[q].key /\ op = OpOf(q)
                       /\ n = Quantity(q) /\ x = trade[k]
  OBVIOUS
<1> PICK t \in IF x = NoTrade THEN NewTrades(n) \cup {NoTrade}
               ELSE {Found(q, k)} :
       /\ \E o \in OrderOutcomes(k, t) :
             req' = [req EXCEPT ![q] = AfterOrder(q, o)]
       /\ trade' = [trade EXCEPT ![k] = t]
       /\ held' = held + Counted(k, t) - Counted(k, x)
  BY DEF Submitted
<1>0. /\ Frame /\ req[q].pc = "order" /\ req[q] \in Request
      /\ WellPlaced(req[q]) /\ bot \in Bot /\ held \in Int
      /\ op \in Transitions /\ k[1] = op /\ k \in TransitionKeys
      /\ x \in Trade /\ n \in Quantities /\ req[q].fill = 0
      /\ trade \in [TransitionKeys -> Trade] /\ req \in [Slots -> Request]
      /\ idem' = idem /\ bot' = bot /\ idem[k] = "absent"
  BY KeyFacts
  DEF Submitted, BookInv, Frame, TypeInv, TypeOK, WellPlaced, OpOf, Request,
      Bot, Quantity, KeysOwned, Owning, Locking
<1>1. /\ t \in Trade /\ Counted(k, t) \in Int /\ Counted(k, x) \in Int
  <2>1. NoTrade \in Trade
    BY DEF NoTrade, Trade, Quantities
  <2>2. ASSUME x = NoTrade
        PROVE  t \in Trade
    <3>1. t = NoTrade \/ t \in NewTrades(n)
      BY <2>2
    <3>2. ASSUME t \in NewTrades(n)
          PROVE  t \in Trade
      BY <1>0, <3>2, NewTradeType
    <3> QED
      BY <2>1, <3>1, <3>2
  <2>3. ASSUME x # NoTrade
        PROVE  t \in Trade
    <3> PICK b : b = (x.lost /\ x.qty # n)
      OBVIOUS
    <3>1. x \in Trade
      BY <1>0
    <3>2. t = [x EXCEPT !.lost = b] /\ b \in BOOLEAN
      BY <2>3, <3>1 DEF Found, Trade
    <3> QED
      BY <3>1, <3>2 DEF Trade
  <2>4. t \in Trade
    BY <2>2, <2>3
  <2> QED
    BY <1>0, <2>4, CountedFacts
<1>2. PICK o : /\ o \in (IF t = NoTrade THEN {} ELSE {StatusOf(t)})
                         \cup {"FAILED", "RAISED"}
               /\ req' = [req EXCEPT ![q] = AfterOrder(q, o)]
  BY DEF OrderOutcomes
<1> PICK r : r = AfterOrder(q, o)
  OBVIOUS
<1>3. /\ r \in Request /\ r.key = k /\ r.arg = req[q].arg /\ r.fill = 0
      /\ r.resp # "absent" /\ r.row.status # "absent" /\ r.row.target # 0
      /\ o = "OPEN" => r.pc = "reconcile" /\ r.row = req[q].row
                       /\ r.resp = "PROCESSING"
      /\ o # "OPEN" => r.pc = "commit" /\ Outcome(q, o, r.row)
      /\ o = "FILLED" => r.resp = "DONE"
  <2>1. CASE o = "OPEN"
    <3>1. r = [req[q] EXCEPT !.pc = "reconcile"]
      BY <2>1 DEF AfterOrder
    <3> QED
      BY <1>0, <2>1, <3>1 DEF Request, PCs, Locking, WellPlaced
  <2>2. CASE o # "OPEN"
    <3>1. r = Concluded(q, o)
      BY <2>2 DEF AfterOrder
    <3> QED
      BY <1>0, <2>2, <3>1, ConcludeFacts, FilledIsDone
  <2> QED
    BY <2>1, <2>2
<1>4. /\ trade' \in [TransitionKeys -> Trade] /\ held' \in Int
      /\ trade'[k] = t /\ \A j \in TransitionKeys \ {k} : trade'[j] = trade[j]
      /\ req'[q] = r /\ \A p \in Slots \ {q} : req'[p] = req[p]
  BY <1>0, <1>1, <1>2
<1>5. Created
  BY <1>0 DEF Frame, NotYetCreated
<1>6. WellPlaced(r)
  BY <1>0, <1>3 DEF WellPlaced, Owning, Locking
<1>7. Frame'
  BY <1>0, <1>2, <1>3, <1>4, <1>5, <1>6, MoveFrame DEF Owning, Locking
<1>8. NoneMistaken' => NoneMistaken
  BY <1>0, <1>4 DEF NoneMistaken
<1>9. ASSUME NoneMistaken
      PROVE  /\ Quiet' => Balanced(bot, held)'
             /\ \A p \in Slots : OwedBy(req[p])'
             /\ Traced' /\ Covered'
  <2>1. /\ bot.status = Prior[op]
        /\ req[q].row = [bot EXCEPT !.status = InProgress[op]]
        /\ held = bot.current /\ held >= 0 /\ NoneOpen /\ Quiet
        /\ bot.status = "PAUSED" => held = 0
        /\ x = NoTrade \/ x.lost
    BY <1>0, <1>9, BookAtOrder DEF Known
  <2>2. n = IF op = "pause" THEN bot.current ELSE bot.target
    BY <1>0, <2>1 DEF Quantity, Bot
  <2>3. /\ x.exec <= x.qty /\ (x.open => x.exec < x.qty)
    BY <1>0, <1>9 DEF BookInv, Covered
  <2>4. /\ Counted(k, x) = 0 /\ (t.lost => t = x)
        /\ t # NoTrade /\ ~t.lost => t.qty = n
        /\ t.exec <= t.qty /\ (t.open => t.exec < t.qty)
    BY <1>0, <2>1, <2>3, SentFacts
  <2>5. /\ held' = held + Counted(k, t) /\ t.exec \in Nat /\ n \in Nat
        /\ t.lost \/ t = NoTrade => held' = held
        /\ ~t.lost => held' = held + Signed(op, t.exec)
        /\ ~t.lost /\ op = "pause" => held' = held - t.exec
        /\ ~t.lost /\ op # "pause" => held' = held + t.exec
    <3>1. held' = held + Counted(k, t)
      BY <1>0, <1>1, <2>4
    <3>2. n \in Nat
      BY <1>0, BotAssumption DEF Quantities
    <3> QED
      BY <1>0, <1>1, <3>1, <3>2, CountedFacts
  <2>6. t.open => t # NoTrade
    BY DEF NoTrade
  <2>7. /\ held' >= 0
        /\ op = "pause" /\ ~t.lost /\ t # NoTrade => t.qty - t.exec <= held'
    <3>1. CASE t.lost \/ t = NoTrade
      BY <2>1, <2>5, <3>1
    <3>2. CASE ~t.lost /\ t # NoTrade /\ op = "pause"
      <4>1. t.qty = held /\ held' = held - t.exec
        BY <2>1, <2>2, <2>4, <2>5, <3>2
      <4> QED
        BY <1>0, <2>4, <2>5, <4>1
    <3>3. CASE ~t.lost /\ t # NoTrade /\ op # "pause"
      BY <1>0, <2>1, <2>5, <3>3
    <3> QED
      BY <3>1, <3>2, <3>3
  <2>8. \A j \in TransitionKeys \ {k} : ~Alive(j)'
    BY <1>4, <2>1 DEF NoneOpen, Alive
  <2>9. Covered'
    <3>1. \A j \in TransitionKeys : /\ trade'[j].exec <= trade'[j].qty
                                    /\ trade'[j].open =>
                                          trade'[j].exec < trade'[j].qty
      BY <1>4, <1>9, <2>4 DEF BookInv, Covered
    <3>2. \A j \in TransitionKeys :
             Alive(j)' /\ j[1] = "pause" =>
                 trade'[j].qty - trade'[j].exec <= held'
      BY <1>0, <1>4, <2>6, <2>7, <2>8 DEF Alive
    <3> QED
      BY <2>7, <2>8, <3>1, <3>2 DEF Covered
  <2>10. Traced'
    BY <1>0, <1>3, <1>4, <1>9 DEF BookInv, Traced, Known
  <2>11. Quiet' => Balanced(bot, held)'
    <3> SUFFICES ASSUME Quiet'
                 PROVE  Balanced(bot, held)'
      OBVIOUS
    <3>1. t = NoTrade \/ t.lost
      <4>1. ~Called(q)'
        BY DEF Quiet
      <4>2. /\ req'[q].pc \in {"reconcile", "commit"}
            /\ OpOf(q)' \in Transitions /\ req'[q].key = k
        BY <1>0, <1>3, <1>4 DEF OpOf
      <4> QED
        BY <1>4, <4>1, <4>2 DEF Called, Known
    <3>2. held' = held
      BY <2>5, <3>1
    <3>3. NoneOpen'
      BY <1>4, <2>6, <2>8, <3>1 DEF NoneOpen, Alive
    <3> QED
      BY <1>0, <2>1, <3>2, <3>3 DEF Balanced
  <2>12. ASSUME Known(k)'
         PROVE  Outstanding(k)' /\ t # NoTrade /\ ~t.lost
    <3>1. t # NoTrade /\ ~t.lost
      BY <1>4, <2>12 DEF Known
    <3>2. trade'[k].qty = (IF op = "pause" THEN bot.current ELSE bot.target)
      BY <1>4, <2>2, <2>4, <3>1
    <3>3. held' = bot.current + Signed(op, trade'[k].exec)
      BY <1>4, <2>1, <2>5, <3>1
    <3> QED
      BY <1>0, <2>1, <2>8, <3>1, <3>2, <3>3 DEF Outstanding
  <2>13. OwedBy(r)'
    <3>0. r.row # NoBot
      BY <1>3 DEF NoBot
    <3>1. CASE o = "OPEN"
      <4>1. /\ r.pc = "reconcile" /\ r.row = req[q].row /\ r.key = k
            /\ t # NoTrade
        BY <1>2, <1>3, <3>1
      <4> QED
        BY <1>0, <1>4, <2>1, <2>12, <3>0, <4>1 DEF OwedBy
    <3>2. CASE o # "OPEN"
      <4>1. r.pc = "commit" /\ Outcome(q, o, r.row) /\ r.key = k
        BY <1>3, <3>2
      <4>2. held' + r.fill = held'
        BY <1>3, <1>4, PlusZero
      <4>3. ASSUME ~Mistaken(r)'
            PROVE  Balanced(r.row, held)'
        <5>1. CASE o # "FILLED"
          <6>1. o \notin {"DISABLED", "REJECTED", "FILLED"}
            BY <1>2, <5>1 DEF StatusOf
          <6> QED
            BY <4>1, <6>1 DEF Balanced, Outcome
        <5>2. CASE o = "FILLED"
          <6>1. t # NoTrade /\ t.exec = t.qty
            BY <1>2, <5>2 DEF StatusOf
          <6>2. ~t.lost
            BY <1>0, <1>3, <1>4, <4>3, <5>2 DEF Mistaken
          <6>3. t.exec = n /\ ~t.open
            BY <1>0, <2>4, <2>5, <6>1, <6>2
          <6>4. NoneOpen'
            BY <1>4, <2>8, <6>3 DEF NoneOpen, Alive
          <6>5. CASE op = "pause"
            <7>1. held' = 0
              BY <1>0, <2>1, <2>2, <2>5, <6>2, <6>3, <6>5
            <7> QED
              BY <1>0, <4>1, <5>2, <6>4, <6>5, <7>1 DEF Balanced, Outcome
          <6>6. CASE op = "resume"
            <7>1. held = 0
              BY <2>1, <6>6 DEF Prior
            <7>2. held' = n /\ req[q].row.target = n
              BY <1>0, <2>1, <2>2, <2>5, <6>2, <6>3, <6>6, <7>1 DEF Bot
            <7> QED
              BY <1>0, <4>1, <5>2, <6>4, <6>6, <7>2 DEF Balanced, Outcome
          <6> QED
            BY <1>0, <6>5, <6>6 DEF Transitions
        <5> QED
          BY <5>1, <5>2
      <4> QED
        BY <1>0, <1>3, <2>7, <2>12, <3>0, <4>1, <4>2, <4>3 DEF OwedBy
    <3> QED
      BY <3>1, <3>2
  <2>14. ASSUME NEW p \in Slots \ {q}
         PROVE  OwedBy(req[p])'
    <3>1. req[p].pc \notin Locking
      BY <1>0, <1>5, LockedAlone DEF Locking, Transitions
    <3> QED
      BY <1>4, <3>1 DEF OwedBy, Locking
  <2> QED
    BY <1>4, <2>9, <2>10, <2>11, <2>13, <2>14
<1> QED
  BY <1>7, <1>8, <1>9 DEF BookInv

LEMMA CommitBook ==
    ASSUME BookInv, NEW q \in Slots, Commit(q)
    PROVE  BookInv'
<1> PICK k, row, f : k = req[q].key /\ row = req[q].row /\ f = req[q].fill
  OBVIOUS
<1>0. /\ Frame /\ req[q].pc = "commit" /\ req[q] \in Request
      /\ WellPlaced(req[q]) /\ bot \in Bot /\ held \in Int /\ f \in Int
      /\ row \in Bot /\ k \in Keys /\ req[q].resp \in Answers
      /\ idem[k] = "absent" /\ k[1] = OpOf(q)
      /\ req \in [Slots -> Request]
      /\ idem \in [Keys -> Answers \cup {"absent"}]
      /\ trade \in [TransitionKeys -> Trade]
      /\ IF bot.status = "absent" THEN bot = NoBot ELSE bot.target # 0
      /\ IF row.status = "absent" THEN row = NoBot ELSE row.target # 0
  BY DEF Commit, BookInv, Frame, TypeInv, TypeOK, WellPlaced, OpOf, Request,
         Locking, Owning, KeysOwned
<1>1. /\ req'[q] = Idle /\ \A p \in Slots \ {q} : req'[p] = req[p]
      /\ idem'[k] = req[q].resp /\ \A j \in Keys \ {k} : idem'[j] = idem[j]
      /\ trade' = trade /\ held' = held + f
      /\ bot' = IF row = NoBot /\ req[q].resp = "REJECTED" THEN bot ELSE row
  BY <1>0 DEF Commit
<1>2. /\ Idle \in Request /\ Idle.pc = "idle" /\ Idle.fill = 0
      /\ "absent" \notin Answers
  BY DEF NoBot, Bot, Idle, Request, Quantities, Status, PCs, Locking, Answers
<1>3. TypeInv'
  <2>1. /\ bot' \in Bot
        /\ IF bot'.status = "absent" THEN bot' = NoBot ELSE bot'.target # 0
    BY <1>0, <1>1
  <2>2. held' \in Int
    BY <1>0, <1>1
  <2>3. idem' \in [Keys -> Answers \cup {"absent"}]
    BY <1>0 DEF Commit
  <2>4. req' \in [Slots -> Request]
    BY <1>0, <1>2 DEF Commit
  <2>5. TypeOK'
    BY <1>0, <1>1, <2>1, <2>2, <2>3, <2>4 DEF TypeOK
  <2>6. \A p \in Slots : WellPlaced(req'[p])
    BY <1>0, <1>1, <1>2 DEF Frame, TypeInv, WellPlaced, Owning, Locking
  <2> QED
    BY <2>1, <2>5, <2>6 DEF TypeInv, WellPlaced
<1>4. ASSUME NEW p \in Slots \ {q}, req[p].pc \in Owning
      PROVE  req[p].key # k /\ req[p].key \in Keys
  BY <1>0, <1>4 DEF Frame, KeysOwned, TypeInv, WellPlaced, Owning, Locking
<1>5. KeysOwned' /\ RowLocked'
  BY <1>0, <1>1, <1>2, <1>4 DEF Frame, KeysOwned, RowLocked, OpOf, Owning,
                                Locking
<1>6. ASSUME ~Created, OpOf(q) # "create"
      PROVE  row = NoBot /\ bot' = bot /\ f = 0 /\ held' = held
  BY <1>0, <1>1, <1>6 DEF Frame, NotYetCreated
<1>7. NotYetCreated'
  <2> SUFFICES ASSUME ~Created'
               PROVE  NotYetCreated'
    BY DEF NotYetCreated
  <2>1. ~Created /\ OpOf(q) # "create"
    BY <1>0, <1>1, <1>2 DEF Created
  <2>2. /\ bot = NoBot /\ held = 0 /\ bot' = bot /\ held' = held
        /\ \A j \in TransitionKeys : trade'[j] = NoTrade
    BY <1>0, <1>1, <1>6, <2>1 DEF Frame, NotYetCreated
  <2>3. ASSUME NEW p \in Slots \ {q}
        PROVE  /\ req'[p].pc \notin {"order", "reconcile"}
               /\ req'[p].pc = "commit" /\ req'[p].key[1] # "create" =>
                     req'[p].row = NoBot /\ req'[p].resp = "REJECTED"
               /\ req'[p].pc = "commit" => req'[p].fill = 0
    <3>1. /\ req[p].pc \notin {"order", "reconcile"}
          /\ req[p].pc = "commit" /\ req[p].key[1] # "create" =>
                req[p].row = NoBot /\ req[p].resp = "REJECTED"
          /\ req[p].pc = "commit" => req[p].fill = 0
      BY <1>0, <2>1 DEF Frame, NotYetCreated, OpOf
    <3> QED
      BY <1>1, <3>1
  <2>4. req'[q].pc \notin {"order", "reconcile", "commit"}
    BY <1>1, <1>2
  <2>5. bot' = NoBot /\ held' = 0
    BY <2>2
  <2> QED
    BY <2>2, <2>3, <2>4, <2>5 DEF NotYetCreated, OpOf
<1>8. NoneMistaken' => NoneMistaken /\ ~Mistaken(req[q])
  <2> SUFFICES ASSUME NoneMistaken'
               PROVE  NoneMistaken /\ ~Mistaken(req[q])
    OBVIOUS
  <2>1. ASSUME NEW j \in TransitionKeys, trade[j].lost
        PROVE  idem[j] # "DONE" /\ (j = k => req[q].resp # "DONE")
    BY <1>0, <1>1, <2>1, KeyFacts DEF NoneMistaken
  <2>2. k[1] \in Transitions => k \in TransitionKeys
    BY <1>0, KeyFacts
  <2> QED
    BY <2>1, <2>2 DEF NoneMistaken, Mistaken
<1>9. ASSUME NoneMistaken, ~Mistaken(req[q])
      PROVE  /\ Quiet' => Balanced(bot, held)'
             /\ \A p \in Slots : OwedBy(req[p])'
             /\ Traced' /\ Covered'
  <2>1. /\ Balanced(row, held + f) /\ held + f >= 0
        /\ f # 0 => row.status \in {"ACTIVE", "PAUSED"}
        /\ row = NoBot /\ k[1] \in Transitions => ~Known(k)
    BY <1>0, <1>9 DEF BookInv, OwedBy
  <2>2. Covered'
    <3>1. held' >= 0 /\ (f # 0 => NoneOpen)
      BY <1>1, <2>1 DEF Balanced
    <3>2. f = 0 => held' = held
      BY <1>0, <1>1
    <3> QED
      BY <1>1, <1>9, <3>1, <3>2 DEF BookInv, Covered, NoneOpen, Alive
  <2>3. Traced'
    BY <1>0, <1>1, <1>2, <1>9, KeyFacts DEF BookInv, Traced, Known
  <2>4. Quiet' => Balanced(bot, held)'
    <3> SUFFICES ASSUME Quiet'
                 PROVE  Balanced(bot, held)'
      OBVIOUS
    <3>1. CASE row = NoBot /\ req[q].resp = "REJECTED"
      <4>1. f = 0 /\ bot' = bot /\ held' = held
        BY <1>0, <1>1, <2>1, <3>1 DEF NoBot
      <4>2. ~Called(q)
        BY <1>0, <2>1, <3>1 DEF Called
      <4>3. ASSUME NEW p \in Slots \ {q}
            PROVE  ~Called(p)
        BY <1>1 DEF Quiet, Called, Known, OpOf
      <4>4. Balanced(bot, held)
        BY <1>9, <4>2, <4>3 DEF Quiet, BookInv
      <4> QED
        BY <1>1, <4>1, <4>4 DEF Balanced, NoneOpen, Alive
    <3>2. CASE ~(row = NoBot /\ req[q].resp = "REJECTED")
      BY <1>1, <2>1, <3>2 DEF Balanced, NoneOpen, Alive
    <3> QED
      BY <3>1, <3>2
  <2>5. ASSUME NEW p \in Slots \ {q}, req[p].pc \in Locking
        PROVE  OwedBy(req[p])'
    <3> PICK y : y = req[p]
      OBVIOUS
    <3>1. OwedBy(y) /\ y \in Request
      BY <1>0, <1>9 DEF BookInv
    <3>2. ~Created /\ y.pc = "commit"
      <4>1. req[p].key \in Keys /\ idem[req[p].key] = "absent"
        BY <1>0, <2>5 DEF Frame, KeysOwned, TypeInv, WellPlaced, Owning, Locking
      <4>2. OpOf(p) = "create" \/ OpOf(q) = "create"
        BY <1>0, <2>5 DEF Frame, RowLocked, Locking
      <4>3. ~Created
        BY <1>0, <4>1, <4>2, KeyFacts DEF Created, OpOf
      <4> QED
        BY <1>0, <2>5, <4>3 DEF Frame, NotYetCreated, Locking
    <3>5. y.key[1] \in Transitions => ~Known(y.key) /\ ~Known(y.key)'
      <4>1. y.key \in Keys
        BY <1>0, <2>5 DEF Frame, TypeInv, WellPlaced, Locking
      <4>2. \A j \in TransitionKeys : trade[j] = NoTrade
        BY <1>0, <3>2 DEF Frame, NotYetCreated
      <4> QED
        BY <1>1, <4>1, <4>2, KeyFacts DEF Known
    <3>6. Mistaken(y)' = Mistaken(y)
      BY <1>1 DEF Mistaken
    <3>3. CASE OpOf(q) # "create"
      <4>1. OwedBy(y)'
        BY <1>1, <1>6, <3>1, <3>2, <3>3, <3>5, <3>6
        DEF OwedBy, Balanced, NoneOpen, Alive
      <4> QED
        BY <1>1, <4>1
    <3>4. CASE OpOf(q) = "create"
      <4>1. OpOf(p) # "create"
        BY <1>0, <1>4, <2>5, <3>4, KeyFacts DEF OpOf, Owning
      <4>2. y.row = NoBot /\ y.fill = 0 /\ held = 0 /\ f = 0
        BY <1>0, <3>2, <4>1 DEF Frame, NotYetCreated
      <4>3. held' = 0
        BY <1>1, <4>2
      <4>4. OwedBy(y)'
        BY <1>1, <3>1, <3>2, <3>5, <4>2, <4>3 DEF OwedBy, Balanced, NoBot
      <4> QED
        BY <1>1, <4>4
    <3> QED
      BY <3>3, <3>4
  <2>6. ASSUME NEW p \in Slots, req'[p].pc \notin Locking
        PROVE  OwedBy(req[p])'
    BY <2>6 DEF OwedBy, Locking
  <2>7. ASSUME NEW p \in Slots
        PROVE  OwedBy(req[p])'
    BY <1>1, <1>2, <2>5, <2>6 DEF Locking
  <2> QED
    BY <2>2, <2>3, <2>4, <2>7
<1> QED
  BY <1>3, <1>5, <1>7, <1>8, <1>9 DEF BookInv, Frame

LEMMA AbortBook ==
    ASSUME BookInv, NEW q \in Slots, Abort(q)
    PROVE  BookInv'
<1> PICK k : k = req[q].key
  OBVIOUS
<1>0. /\ Frame /\ req \in [Slots -> Request] /\ bot \in Bot
      /\ trade \in [TransitionKeys -> Trade] /\ held \in Int /\ MayCrash
      /\ UNCHANGED <<bot, idem>> /\ req' = [req EXCEPT ![q] = Idle]
      /\ k \in Keys
  BY DEF Abort, InFlight, BookInv, Frame, TypeInv, TypeOK, WellPlaced
<1>1. /\ Idle \in Request /\ Idle.pc = "idle" /\ Idle.fill = 0
      /\ Idle.key = <<>>
  BY DEF NoBot, Bot, Idle, Request, Quantities, Status, PCs, Locking
<1>2. req'[q] = Idle /\ \A p \in Slots \ {q} : req'[p] = req[p]
  BY <1>0
<1>3. WellPlaced(Idle)
  BY <1>1 DEF WellPlaced, Owning, Locking
\* Nothing that counts is lost with the transaction ...
<1>4. CASE ~Called(q)
  <2>1. trade' = trade /\ held' = held
    <3>1. CASE k \in TransitionKeys /\ req[q].pc \in {"reconcile", "commit"}
      <4> PICK x : x = trade[k]
        OBVIOUS
      <4>1. x \in Trade /\ (x = NoTrade \/ x.lost)
        <5>1. OpOf(q) \in Transitions
          BY <3>1, KeyFacts DEF OpOf
        <5> QED
          BY <1>0, <1>4, <3>1, <5>1 DEF Called, Known
      <4>2. Counted(k, x) = 0 /\ x.lost \in BOOLEAN
        BY <3>1, <4>1, CountedFacts
      <4>3. Lose(k) = x
        <5>1. CASE x = NoTrade
          BY <5>1 DEF Lose
        <5>2. CASE x # NoTrade
          BY <4>1, <4>2, <5>2 DEF Lose, Trade
        <5> QED
          BY <5>1, <5>2
      <4>4. /\ trade' = [trade EXCEPT ![k] = Lose(k)]
            /\ held' = held - Counted(k, x)
        BY <3>1 DEF Abort
      <4>5. held' = held
        BY <1>0, <4>2, <4>4
      <4>6. trade' = trade
        BY <1>0, <3>1, <4>3, <4>4
      <4> QED
        BY <4>5, <4>6
    <3>2. CASE ~(k \in TransitionKeys /\ req[q].pc \in {"reconcile", "commit"})
      BY <3>2 DEF Abort
    <3> QED
      BY <3>1, <3>2
  <2>2. Frame'
    BY <1>0, <1>1, <1>3, <2>1, MoveFrame DEF Owning, Locking
  <2>3. NoneMistaken' = NoneMistaken
    BY <1>0, <2>1 DEF NoneMistaken
  <2>4. ASSUME NoneMistaken
        PROVE  /\ Quiet' => Balanced(bot, held)'
               /\ \A p \in Slots : OwedBy(req[p])'
               /\ Traced' /\ Covered'
    <3>1. Covered'
      BY <2>1, <2>4 DEF BookInv, Covered, Alive
    <3>2. Traced'
      <4> SUFFICES ASSUME NEW j \in TransitionKeys, Known(j)
                   PROVE  \/ idem'[j] # "absent"
                          \/ \E p \in Slots :
                                 /\ req'[p].key = j
                                 /\ req'[p].pc \in {"reconcile", "commit"}
        BY <2>1 DEF Traced, Known
      <4>1. CASE idem[j] # "absent"
        BY <1>0, <4>1
      <4>2. CASE idem[j] = "absent"
        <5>1. PICK p \in Slots : req[p].key = j
                                 /\ req[p].pc \in {"reconcile", "commit"}
          BY <2>4, <4>2 DEF BookInv, Traced
        <5>2. p # q
          BY <1>4, <5>1, KeyFacts DEF Called, OpOf
        <5> QED
          BY <1>2, <5>1, <5>2
      <4> QED
        BY <4>1, <4>2
    <3>3. Quiet' => Balanced(bot, held)'
      <4> SUFFICES ASSUME Quiet'
                   PROVE  Balanced(bot, held)'
        OBVIOUS
      <4>1. ASSUME NEW p \in Slots \ {q}
            PROVE  ~Called(p)
        BY <1>2, <2>1 DEF Quiet, Called, Known, OpOf
      <4>2. Balanced(bot, held)
        BY <1>4, <2>4, <4>1 DEF Quiet, BookInv
      <4> QED
        BY <1>0, <2>1, <4>2 DEF Balanced, NoneOpen, Alive
    <3>4. ASSUME NEW p \in Slots
          PROVE  OwedBy(req[p])'
      <4>1. CASE p = q
        BY <1>1, <1>2, <4>1 DEF OwedBy
      <4>2. CASE p # q
        <5> PICK y : y = req[p]
          OBVIOUS
        <5>1. OwedBy(y)
          BY <2>4 DEF BookInv
        <5>2. OwedBy(y)'
          BY <1>0, <2>1, <5>1 DEF OwedBy, Balanced, NoneOpen, Known, Alive,
                                  Outstanding, Mistaken
        <5> QED
          BY <1>2, <4>2, <5>2
      <4> QED
        BY <4>1, <4>2
    <3> QED
      BY <3>1, <3>2, <3>3, <3>4
  <2> QED
    BY <2>2, <2>3, <2>4 DEF BookInv
\* ... or an order of its own, which the book never had.
<1>5. CASE Called(q)
  <2> PICK x : x = trade[k]
    OBVIOUS
  <2>1. /\ req[q].pc \in {"reconcile", "commit"} /\ k \in TransitionKeys
        /\ k[1] \in Transitions /\ x \in Trade /\ x # NoTrade /\ ~x.lost
        /\ OpOf(q) = k[1]
    BY <1>0, <1>5, KeyFacts DEF Called, Known, OpOf
  <2> PICK y : y = [x EXCEPT !.lost = TRUE]
    OBVIOUS
  <2>2. /\ y \in Trade /\ y.lost /\ y.exec = x.exec /\ y.qty = x.qty
        /\ y.open = x.open
    BY <2>1 DEF Trade
  <2>3. /\ trade' = [trade EXCEPT ![k] = y]
        /\ held' = held - Counted(k, x)
    BY <2>1 DEF Abort, Lose
  <2>4. /\ trade'[k] = y /\ trade' \in [TransitionKeys -> Trade]
        /\ \A j \in TransitionKeys \ {k} : trade'[j] = trade[j]
    BY <1>0, <2>1, <2>2, <2>3
  <2>5. Counted(k, x) = Signed(k[1], x.exec) /\ Counted(k, x) \in Int
    BY <2>1, CountedFacts
  <2>6. held' \in Int
    BY <1>0, <2>3, <2>5
  <2>7. Created
    BY <1>0, <2>1 DEF Frame, NotYetCreated
  <2>8. Frame'
    BY <1>0, <1>1, <1>3, <2>4, <2>6, <2>7, MoveFrame DEF Owning, Locking
  <2>9. NoneMistaken' => NoneMistaken
    BY <1>0, <2>1, <2>2, <2>4 DEF NoneMistaken
  <2>10. ASSUME NoneMistaken
         PROVE  /\ Balanced(bot, held)'
                /\ \A p \in Slots : OwedBy(req[p])'
                /\ Traced' /\ Covered'
    <3>1. Outstanding(k)
      BY <2>1, <2>10 DEF BookInv, OwedBy, Known
    <3>2. held' = bot.current
      <4>1. PICK c \in Int : c = Counted(k, x)
        BY <2>5
      <4>2. held = bot.current + c
        BY <2>5, <3>1, <4>1 DEF Outstanding
      <4>3. bot.current \in Int
        BY <1>0, QuantitiesAreNat DEF Bot
      <4> QED
        BY <2>3, <4>1, <4>2, <4>3
    <3>3. \A j \in TransitionKeys : ~Alive(j)'
      BY <2>2, <2>4, <3>1 DEF Outstanding, Alive
    <3>4. Balanced(bot, held)'
      BY <1>0, <3>1, <3>2, <3>3 DEF Balanced, NoneOpen, Outstanding
    <3>5. Covered'
      <4>1. held' >= 0
        BY <1>0, <3>2, QuantitiesAreNat DEF Bot
      <4>2. \A j \in TransitionKeys : /\ trade'[j].exec <= trade'[j].qty
                                      /\ trade'[j].open =>
                                            trade'[j].exec < trade'[j].qty
        <5>1. \A j \in TransitionKeys : /\ trade[j].exec <= trade[j].qty
                                        /\ trade[j].open =>
                                              trade[j].exec < trade[j].qty
          BY <2>10 DEF BookInv, Covered
        <5>2. \A j \in TransitionKeys : /\ trade'[j].exec = trade[j].exec
                                        /\ trade'[j].qty = trade[j].qty
                                        /\ trade'[j].open = trade[j].open
          BY <2>2, <2>4
        <5> QED
          BY <5>1, <5>2
      <4> QED
        BY <3>3, <4>1, <4>2 DEF Covered
    <3>6. Traced'
      <4> SUFFICES ASSUME NEW j \in TransitionKeys, Known(j)'
                   PROVE  \/ idem'[j] # "absent"
                          \/ \E p \in Slots :
                                 /\ req'[p].key = j
                                 /\ req'[p].pc \in {"reconcile", "commit"}
        BY DEF Traced
      <4>1. j # k /\ Known(j)
        BY <2>2, <2>4 DEF Known
      <4>2. \/ idem[j] # "absent"
            \/ \E p \in Slots : /\ req[p].key = j
                                 /\ req[p].pc \in {"reconcile", "commit"}
        BY <2>10, <4>1 DEF BookInv, Traced
      <4> QED
        BY <1>0, <1>2, <4>1, <4>2
    <3>7. ASSUME NEW p \in Slots
          PROVE  req'[p].pc \notin Locking
      <4>1. CASE p = q
        BY <1>1, <1>2, <4>1 DEF Locking
      <4>2. CASE p # q
        BY <1>0, <1>2, <2>1, <2>7, <4>2, LockedAlone DEF Locking, Transitions
      <4> QED
        BY <4>1, <4>2
    <3>8. \A p \in Slots : OwedBy(req[p])'
      BY <3>7 DEF OwedBy, Locking
    <3> QED
      BY <3>4, <3>5, <3>6, <3>8
  <2> QED
    BY <2>8, <2>9, <2>10 DEF BookInv
<1> QED
  BY <1>4, <1>5

LEMMA ExecuteBook ==
    ASSUME BookInv, NEW k \in TransitionKeys, Execute(k)
    PROVE  BookInv'
<1> PICK x, op : x = trade[k] /\ op = k[1]
  OBVIOUS
<1>0. /\ Frame /\ trade \in [TransitionKeys -> Trade] /\ held \in Int
      /\ x \in Trade /\ x.open /\ op \in Transitions /\ bot \in Bot
      /\ UNCHANGED <<bot, idem, req>> /\ req \in [Slots -> Request]
  BY KeyFacts DEF Execute, BookInv, Frame, TypeInv, TypeOK
<1> PICK t \in NewTrades(x.qty) :
       LET z == [t EXCEPT !.lost = x.lost] IN
       /\ z.exec >= x.exec
       /\ trade' = [trade EXCEPT ![k] = z]
       /\ held' = held + Counted(k, z) - Counted(k, x)
  BY DEF Execute
<1> PICK y : y = [t EXCEPT !.lost = x.lost]
  OBVIOUS
<1>1. /\ y = [t EXCEPT !.lost = x.lost] /\ y.exec >= x.exec
      /\ trade' = [trade EXCEPT ![k] = y]
      /\ held' = held + Counted(k, y) - Counted(k, x)
  OBVIOUS
<1>2. /\ y \in Trade /\ y.qty = x.qty /\ y.exec <= y.qty
      /\ (y.open => y.exec < y.qty) /\ y.lost = x.lost
  <2>1. x.qty \in Quantities /\ x.lost \in BOOLEAN
    BY <1>0 DEF Trade
  <2>2. /\ t \in Trade /\ t.qty = x.qty /\ t.exec \in 0..x.qty
        /\ (t.open => t.exec < x.qty) /\ x.qty \in Nat
    BY <2>1, NewTradeType
  <2>3. /\ y \in Trade /\ y.qty = t.qty /\ y.exec = t.exec
        /\ y.open = t.open /\ y.lost = x.lost
    BY <1>1, <2>1, <2>2 DEF Trade
  <2>4. y.exec <= y.qty /\ (y.open => y.exec < y.qty)
    BY <2>2, <2>3
  <2> QED
    BY <2>2, <2>3, <2>4
<1>3. /\ trade'[k] = y /\ \A j \in TransitionKeys \ {k} : trade'[j] = trade[j]
      /\ trade' \in [TransitionKeys -> Trade]
  BY <1>0, <1>1, <1>2
<1>4. /\ x.exec \in Nat /\ y.exec \in Nat /\ x.qty \in Nat
      /\ x.lost => held' = held
      /\ ~x.lost => held' = held + Signed(op, y.exec) - Signed(op, x.exec)
      /\ ~x.lost /\ op = "pause" => held' = held - (y.exec - x.exec)
      /\ ~x.lost /\ op # "pause" => held' = held + (y.exec - x.exec)
      /\ held' \in Int
  <2>1. PICK c \in Int : c = Counted(k, x)
    BY <1>0, CountedFacts
  <2>2. PICK d \in Int : d = Counted(k, y)
    BY <1>2, CountedFacts
  <2>3. held' = held + d - c
    BY <1>1, <2>1, <2>2
  <2>4. /\ x.exec \in Nat /\ x.lost \in BOOLEAN /\ x.qty \in Nat
        /\ x.lost => c = 0
        /\ ~x.lost => c = Signed(op, x.exec)
        /\ ~x.lost /\ op = "pause" => c = -x.exec
        /\ ~x.lost /\ op # "pause" => c = x.exec
    BY <1>0, <2>1, CountedFacts
  <2>5. /\ y.exec \in Nat
        /\ x.lost => d = 0
        /\ ~x.lost => d = Signed(op, y.exec)
        /\ ~x.lost /\ op = "pause" => d = -y.exec
        /\ ~x.lost /\ op # "pause" => d = y.exec
    BY <1>0, <1>2, <2>2, CountedFacts
  <2> QED
    BY <1>0, <2>3, <2>4, <2>5
<1>5. x # NoTrade /\ Created
  BY <1>0 DEF Frame, NotYetCreated, NoTrade
<1>6. Frame'
  <2>1. TypeInv'
    BY <1>0, <1>3, <1>4 DEF Frame, TypeInv, TypeOK, WellPlaced
  <2> QED
    BY <1>0, <1>5, <2>1
    DEF Frame, KeysOwned, RowLocked, NotYetCreated, Created, OpOf
<1>7. /\ NoneMistaken' = NoneMistaken
      /\ \A r : r.key \in Keys => Mistaken(r)' = Mistaken(r)
  <2>1. \A j \in TransitionKeys : trade'[j].lost = trade[j].lost
    BY <1>2, <1>3
  <2>2. NoneMistaken' = NoneMistaken
    BY <1>0, <2>1 DEF NoneMistaken
  <2>3. \A r : r.key \in Keys => Mistaken(r)' = Mistaken(r)
    BY <2>1, KeyFacts DEF Mistaken
  <2> QED
    BY <2>2, <2>3
<1>8. ASSUME NoneMistaken
      PROVE  \A j \in TransitionKeys : /\ trade'[j].exec <= trade'[j].qty
                                       /\ trade'[j].open =>
                                             trade'[j].exec < trade'[j].qty
  BY <1>2, <1>3, <1>8 DEF BookInv, Covered
\* What a lost order executes counts nowhere.
<1>9. ASSUME NoneMistaken, x.lost
      PROVE  /\ Quiet' => Balanced(bot, held)'
             /\ \A p \in Slots : OwedBy(req[p])'
             /\ Traced' /\ Covered'
  <2>0. NoTrade.lost = FALSE
    BY DEF NoTrade
  <2>1. held' = held /\ y # NoTrade /\ y.lost
    BY <1>2, <1>4, <1>9, <2>0
  <2>2. \A j \in TransitionKeys : /\ Known(j)' = Known(j)
                                  /\ Alive(j)' = Alive(j)
    BY <1>3, <1>9, <2>1 DEF Known, Alive
  <2>3. \A j \in TransitionKeys : Alive(j) => trade'[j] = trade[j]
    BY <1>3, <1>9 DEF Alive
  <2>4. Covered'
    BY <1>8, <1>9, <2>1, <2>2, <2>3 DEF BookInv, Covered
  <2>5. Traced'
    BY <1>0, <1>9, <2>2 DEF BookInv, Traced
  <2>6. NoneOpen' = NoneOpen
    BY <2>2 DEF NoneOpen
  <2>7. ASSUME NEW p \in Slots
        PROVE  OwedBy(req[p])' /\ Called(p)' = Called(p)
    <3> PICK r : r = req[p]
      OBVIOUS
    <3>1. OwedBy(r) /\ (r.pc # "idle" => r.key \in Keys)
      BY <1>0, <1>9 DEF BookInv, Frame, TypeInv, WellPlaced
    <3>2. r.pc # "idle" /\ r.key[1] \in Transitions => r.key \in TransitionKeys
      BY <3>1, KeyFacts
    <3>3. r.pc = "reconcile" => trade'[r.key] # NoTrade
      <4>1. r.pc = "reconcile" => r.key \in TransitionKeys
        BY <1>0, <3>2 DEF Frame, TypeInv, WellPlaced
      <4> QED
        BY <1>3, <2>1, <3>1, <4>1 DEF OwedBy
    <3>4. ASSUME r.pc \in {"reconcile", "commit"}, r.key[1] \in Transitions,
                 Known(r.key)'
          PROVE  Outstanding(r.key)' /\ r.row # NoBot
      <4>1. r.key \in TransitionKeys /\ Known(r.key)
        BY <2>2, <3>2, <3>4
      <4>2. Outstanding(r.key) /\ r.row # NoBot
        BY <3>1, <3>4, <4>1 DEF OwedBy
      <4>3. trade'[r.key] = trade[r.key]
        BY <1>3, <1>9, <4>1 DEF Known
      <4> QED
        BY <1>0, <2>1, <2>2, <4>2, <4>3 DEF Outstanding
    <3>5. OwedBy(r)'
      BY <1>0, <1>7, <2>1, <2>6, <3>1, <3>3, <3>4 DEF OwedBy, Balanced
    <3>6. Called(p)' = Called(p)
      BY <1>0, <2>2, <3>2 DEF Called, OpOf
    <3> QED
      BY <1>0, <3>5, <3>6
  <2>8. Quiet' => Balanced(bot, held)'
    BY <1>0, <1>9, <2>1, <2>6, <2>7 DEF Quiet, BookInv, Balanced
  <2> QED
    BY <2>4, <2>5, <2>7, <2>8
\* What an order of the book executes is owed by the transition that placed it,
\* or by a bot in ERROR.
<1>10. ASSUME NoneMistaken, ~x.lost
       PROVE  /\ Quiet' => Balanced(bot, held)'
              /\ \A p \in Slots : OwedBy(req[p])'
              /\ Traced' /\ Covered'
  <2>1. /\ held >= 0 /\ x.exec < x.qty /\ Alive(k) /\ ~NoneOpen
        /\ \A j \in TransitionKeys : Alive(j) => j = k
        /\ op = "pause" => x.qty - x.exec <= held
    BY <1>0, <1>10 DEF BookInv, Covered, Alive, NoneOpen
  <2>2. y # NoTrade /\ ~y.lost
    BY <1>2, <1>4, <1>10, <2>1 DEF NoTrade
  <2>3. /\ held' >= 0
        /\ op = "pause" => y.qty - y.exec <= held'
    <3>1. CASE op = "pause"
      <4>1. held' = held - (y.exec - x.exec) /\ y.qty = x.qty
        BY <1>2, <1>4, <1>10, <3>1
      <4> QED
        BY <1>0, <1>2, <1>4, <2>1, <3>1, <4>1
    <3>2. CASE op # "pause"
      <4>1. held' = held + (y.exec - x.exec)
        BY <1>4, <1>10, <3>2
      <4> QED
        BY <1>0, <1>1, <1>4, <2>1, <3>2, <4>1
    <3> QED
      BY <3>1, <3>2
  <2>4. \A j \in TransitionKeys : Alive(j)' => j = k
    BY <1>3, <2>1 DEF Alive
  <2>5. Covered'
    <3>1. \A j \in TransitionKeys :
             Alive(j)' /\ j[1] = "pause" =>
                 trade'[j].qty - trade'[j].exec <= held'
      BY <1>3, <2>3, <2>4
    <3>2. \A i, j \in TransitionKeys : Alive(i)' /\ Alive(j)' => i = j
      BY <2>4
    <3> QED
      BY <1>8, <1>10, <2>3, <3>1, <3>2 DEF Covered
  <2>6. \A j \in TransitionKeys : Known(j)' = Known(j)
    BY <1>3, <1>5, <1>10, <2>2 DEF Known
  <2>7. Traced'
    BY <1>0, <1>10, <2>6 DEF BookInv, Traced
  <2>8. Quiet' => Balanced(bot, held)'
    <3> SUFFICES ASSUME Quiet'
                 PROVE  Balanced(bot, held)'
      OBVIOUS
    <3>1. ASSUME NEW p \in Slots, Called(p)
          PROVE  FALSE
      <4>1. req[p].key \in TransitionKeys
        BY <1>0, <3>1, KeyFacts DEF Called, OpOf, Frame, TypeInv, WellPlaced
      <4>2. Known(req[p].key)'
        BY <2>6, <1>0, <3>1, <4>1 DEF Called, Known
      <4>3. Called(p)'
        BY <1>0, <3>1, <4>2 DEF Called, OpOf
      <4> QED
        BY <4>3 DEF Quiet
    <3>2. bot.status \notin {"ACTIVE", "PAUSED"}
      BY <1>10, <2>1, <3>1 DEF Quiet, BookInv, Balanced
    <3> QED
      BY <1>0, <3>2 DEF Balanced
  <2>9. ASSUME NEW p \in Slots
        PROVE  OwedBy(req[p])'
    <3> PICK r : r = req[p]
      OBVIOUS
    <3>1. OwedBy(r) /\ r \in Request /\ (r.pc # "idle" => r.key \in Keys)
      BY <1>0, <1>10 DEF BookInv, Frame, TypeInv, WellPlaced
    <3>2. ASSUME r.pc \in {"reconcile", "commit"}, r.key[1] \in Transitions,
                 Known(r.key)'
          PROVE  Outstanding(r.key)' /\ r.row # NoBot
      <4>1. r.key \in TransitionKeys
        BY <3>1, <3>2, KeyFacts
      <4>2. Outstanding(r.key) /\ r.row # NoBot
        BY <2>6, <3>1, <3>2, <4>1 DEF OwedBy
      <4>3. r.key = k
        BY <2>1, <4>2 DEF Outstanding
      <4>4. held = bot.current + Signed(op, x.exec) /\ bot.current \in Nat
        BY <1>0, <4>2, <4>3, QuantitiesAreNat DEF Outstanding, Bot
      <4>5. Signed(op, x.exec) \in Int /\ Signed(op, y.exec) \in Int
        BY <1>4 DEF Signed
      <4>6. held' = bot.current + Signed(op, y.exec)
        BY <1>4, <1>10, <4>4, <4>5
      <4> QED
        BY <1>0, <1>2, <1>3, <2>4, <4>2, <4>3, <4>6 DEF Outstanding
    <3>3. r.pc = "reconcile" => trade'[r.key] # NoTrade
      <4>1. r.pc = "reconcile" => r.key \in TransitionKeys
        BY <1>0, <3>1, KeyFacts DEF Frame, TypeInv, WellPlaced
      <4> QED
        BY <1>3, <2>2, <3>1, <4>1 DEF OwedBy
    <3>4. ASSUME r.pc = "commit", ~Mistaken(r)'
          PROVE  /\ Balanced(r.row, held + r.fill)' /\ held' + r.fill >= 0
                 /\ r.fill = 0
      <4>1. r.row.status \notin {"ACTIVE", "PAUSED"} /\ r.fill = 0
        BY <1>7, <2>1, <3>1, <3>4 DEF OwedBy, Balanced
      <4>2. held' + r.fill = held'
        BY <1>4, <4>1, PlusZero
      <4> QED
        BY <2>3, <4>1, <4>2 DEF Balanced
    <3>5. OwedBy(r)'
      BY <1>0, <3>1, <3>2, <3>3, <3>4 DEF OwedBy
    <3> QED
      BY <1>0, <3>5
  <2> QED
    BY <2>5, <2>7, <2>8, <2>9
<1> QED
  <2>1. x.lost \in BOOLEAN
    BY <1>0 DEF Trade
  <2> QED
    BY <1>6, <1>7, <1>9, <1>10, <2>1 DEF BookInv

LEMMA StepBook == BookInv /\ [Next]_vars => BookInv'
<1> SUFFICES ASSUME BookInv, [Next]_vars
             PROVE  BookInv'
  OBVIOUS
<1>1. CASE UNCHANGED vars
  <2>1. Frame' = Frame /\ NoneMistaken' = NoneMistaken
    BY <1>1 DEF vars, Frame, TypeInv, TypeOK, KeysOwned, RowLocked,
                NotYetCreated, Created, OpOf, NoneMistaken
  <2>2. /\ \A k : Known(k)' = Known(k) /\ Alive(k)' = Alive(k)
        /\ \A k : Outstanding(k)' = Outstanding(k)
        /\ NoneOpen' = NoneOpen
    BY <1>1 DEF vars, Known, Alive, Outstanding, NoneOpen
  <2>3. /\ Quiet' = Quiet /\ Traced' = Traced /\ Covered' = Covered
        /\ Balanced(bot, held)' = Balanced(bot, held)
    BY <1>1, <2>2 DEF vars, Quiet, Called, OpOf, Traced, Covered, Balanced
  <2>4. \A q \in Slots : OwedBy(req[q])' = OwedBy(req[q])
    BY <1>1, <2>2 DEF vars, OwedBy, Balanced, Mistaken
  <2> QED
    BY <2>1, <2>3, <2>4 DEF BookInv
<1>2. ASSUME NEW q \in Slots,
             \/ \E k \in KeysOf(q), target \in Quantities :
                   Receive(q, k, target)
             \/ Handle(q) \/ Abort(q)
      PROVE  BookInv'
  BY <1>2, EarlyBook, DecisionsBook, StartBook, SimulatedBook,
     NotSubmittedBook, RaisesBook, SubmitBook, ReconcileBook, CommitBook,
     AbortBook
  DEF Handle, Transition
<1> QED
  BY <1>1, <1>2, ExecuteBook DEF Next

-----------------------------------------------------------------------------
(* A bot left in progress *)

LEMMA StuckLocal ==
    ASSUME StuckInv, NEW q \in Slots, NEW r, req' = [req EXCEPT ![q] = r],
           UNCHANGED <<bot, idem>>, RowVisible(r)
    PROVE  Visible' /\ \A p \in Slots : RowVisible(req[p])'
<1>1. req \in [Slots -> Request]
  BY DEF StuckInv, BookInv, Frame, TypeInv, TypeOK
<1>2. req'[q] = r /\ \A p \in Slots \ {q} : req'[p] = req[p]
  BY <1>1
<1>3. ASSUME NEW x, RowVisible(x)
      PROVE  RowVisible(x)'
  BY <1>3 DEF RowVisible
<1>4. ASSUME NEW p \in Slots
      PROVE  RowVisible(req[p])'
  <2> PICK x : x = req'[p]
    OBVIOUS
  <2>1. RowVisible(x)
    BY <1>2 DEF StuckInv
  <2>2. RowVisible(x)'
    BY <1>3, <2>1
  <2> QED
    BY <2>2
<1> QED
  BY <1>4 DEF StuckInv, Visible, Unanswered

\* What a decision under the lock writes: the status it found, or one out of
\* transit over one out of transit.
LEMMA DecidedVisible ==
    ASSUME StuckInv, NEW q \in Slots,
           \/ CreateBot(q) \/ RefuseStatus(q) \/ UpdateBot(q) \/ StopBot(q)
           \/ DeleteBot(q) \/ ActivateLive(q)
    PROVE  Visible' /\ \A p \in Slots : RowVisible(req[p])'
<1>0. /\ BookInv /\ req[q] \in Request /\ WellPlaced(req[q]) /\ bot \in Bot
  BY DEF StuckInv, BookInv, Frame, TypeInv, TypeOK
<1>1. ASSUME NEW row, NEW answer \in {"DONE", "REJECTED"},
             Decide(q, row, answer),
             \/ row.status = bot.status
             \/ bot.status \notin InTransit /\ row.status \notin InTransit
      PROVE  Visible' /\ \A p \in Slots : RowVisible(req[p])'
  <2> PICK r : r = [req[q] EXCEPT !.pc = "commit", !.row = row,
                                  !.resp = answer]
    OBVIOUS
  <2>1. r.row = row /\ r.resp = answer /\ r.pc = "commit"
    BY <1>0 DEF Request
  <2>2. RowVisible(r)
    BY <1>1, <2>1 DEF RowVisible
  <2> QED
    BY <1>1, <2>2, StuckLocal DEF Decide, Local
<1>2. CASE CreateBot(q)
  <2> PICK row : row = [NoBot EXCEPT !.status = "PAUSED",
                                     !.target = req[q].arg]
    OBVIOUS
  <2>1. ~Created
    BY <1>0, <1>2, KeyFacts
    DEF CreateBot, OpOf, BookInv, Frame, KeysOwned, Created, WellPlaced,
        Owning
  <2>2. bot.status = "absent"
    BY <1>0, <2>1 DEF BookInv, Frame, NotYetCreated, NoBot
  <2>3. row.status = "PAUSED"
    BY DEF NoBot
  <2> QED
    BY <1>1, <1>2, <2>2, <2>3 DEF CreateBot, InTransit
<1>3. CASE RefuseStatus(q)
  BY <1>1, <1>3 DEF RefuseStatus
<1>4. CASE UpdateBot(q)
  <2> PICK row : row = [bot EXCEPT !.target = req[q].arg]
    OBVIOUS
  <2>1. row.status = bot.status
    BY <1>0 DEF Bot
  <2> QED
    BY <1>1, <1>4, <2>1 DEF UpdateBot
<1>5. CASE StopBot(q)
  <2> PICK row : row = [bot EXCEPT !.status = "STOPPED"]
    OBVIOUS
  <2>1. row.status = "STOPPED"
    BY <1>0 DEF Bot
  <2>2. bot.status \notin InTransit
    BY <1>5, FromFacts DEF StopBot, MayStart, Ops
  <2> QED
    BY <1>1, <1>5, <2>1, <2>2 DEF StopBot, InTransit
<1>6. CASE DeleteBot(q)
  <2>1. NoBot.status = "absent"
    BY DEF NoBot
  <2>2. bot.status \notin InTransit
    BY <1>6, FromFacts DEF DeleteBot, MayStart, Ops
  <2> QED
    BY <1>1, <1>6, <2>1, <2>2 DEF DeleteBot, InTransit
<1>7. CASE ActivateLive(q)
  <2> PICK row : row = [bot EXCEPT !.mode = "LIVE"]
    OBVIOUS
  <2>1. row.status = bot.status
    BY <1>0 DEF Bot
  <2> QED
    BY <1>1, <1>7, <2>1 DEF ActivateLive
<1> QED
  BY <1>2, <1>3, <1>4, <1>5, <1>6, <1>7

\* A transition ends out of transit with an answer, or in transit without one
\* and only where Binance answers what the code cannot read.
LEMMA TransitionVisible ==
    ASSUME StuckInv, NEW q \in Slots, Transition(q)
    PROVE  Visible' /\ \A p \in Slots : RowVisible(req[p])'
<1>0. /\ BookInv /\ req[q] \in Request /\ WellPlaced(req[q]) /\ bot \in Bot
      /\ RowVisible(req[q])
  BY DEF StuckInv, BookInv, Frame, TypeInv, TypeOK
<1>1. CASE StartTransition(q)
  <2> PICK r : r = [req[q] EXCEPT !.pc = "order",
                       !.row = [bot EXCEPT !.status = InProgress[OpOf(q)]]]
    OBVIOUS
  <2>1. /\ r.key = req[q].key /\ r.resp = req[q].resp /\ r.pc = "order"
        /\ r.row = [bot EXCEPT !.status = InProgress[OpOf(q)]]
    BY <1>0 DEF Request
  <2>2. r.row.status = InProgress[OpOf(q)]
    BY <1>0, <2>1 DEF Bot
  <2>3. OpOf(q) \in Transitions /\ req[q].resp = "PROCESSING"
    BY <1>0, <1>1 DEF StartTransition, MayStart, Locked, WellPlaced,
                      Transitions
  <2>4. bot.status \notin InTransit
    BY <1>1, FromFacts DEF StartTransition, MayStart, Ops
  <2>5. RowVisible(r)
    BY <2>1, <2>2, <2>3, <2>4 DEF RowVisible, OpOf
  <2> QED
    BY <1>1, <2>5, StuckLocal DEF StartTransition, Local
<1>2. ASSUME req[q].pc \in {"order", "reconcile"}, NEW o, NEW f \in Int,
             NEW r \in {Concluded(q, o), [Concluded(q, o) EXCEPT !.fill = f]}
      PROVE  RowVisible(r)
  <2> PICK c : c = Concluded(q, o)
    OBVIOUS
  <2>1. /\ c \in Request /\ c.row.status \in {"ACTIVE", "PAUSED", "ERROR"}
        /\ c.resp # "PROCESSING"
    BY <1>0, <1>2, ConcludeFacts
  <2>2. r = c \/ r = [c EXCEPT !.fill = f]
    BY <1>2
  <2>3. r.row = c.row /\ r.resp = c.resp
    BY <2>1, <2>2 DEF Request
  <2>4. bot.status \notin InTransit
    BY <1>0, <1>2 DEF RowVisible, Locking
  <2> QED
    BY <2>1, <2>3, <2>4 DEF RowVisible, InTransit
<1>3. ASSUME NEW o, SimulatedOrder(q, o)
      PROVE  Visible' /\ \A p \in Slots : RowVisible(req[p])'
  <2> PICK f : f = IF o = "FILLED" THEN Signed(OpOf(q), Quantity(q)) ELSE 0
    OBVIOUS
  <2>1. f \in Int
    <3> PICK n, w : n = Quantity(q) /\ w = req[q].row
      OBVIOUS
    <3>1. w \in Bot
      BY <1>0 DEF Request
    <3>2. n = w.current \/ n = w.target
      BY DEF Quantity
    <3>3. n \in Nat
      BY <3>1, <3>2, QuantitiesAreNat DEF Bot
    <3> QED
      BY <3>3 DEF Signed
  <2> PICK r : r = [Concluded(q, o) EXCEPT !.fill = f]
    OBVIOUS
  <2>2. RowVisible(r)
    BY <1>2, <1>3, <2>1 DEF SimulatedOrder
  <2> QED
    BY <1>3, <2>2, StuckLocal DEF SimulatedOrder, Local
<1>4. ASSUME NEW o, \/ NotSubmitted(q, o)
                    \/ Reconcile(q) /\ Local(q, Concluded(q, o))
      PROVE  Visible' /\ \A p \in Slots : RowVisible(req[p])'
  <2> PICK r : r = Concluded(q, o)
    OBVIOUS
  <2>1. 0 \in Int /\ req[q].pc \in {"order", "reconcile"}
    BY <1>4 DEF NotSubmitted, Reconcile
  <2>2. RowVisible(r)
    BY <1>2, <2>1
  <2> QED
    BY <1>4, <2>2, StuckLocal DEF NotSubmitted, Local
<1>5. CASE BalanceRaises(q) \/ ReconcileRaises(q)
  <2> PICK r : r = [req[q] EXCEPT !.pc = "commit"]
    OBVIOUS
  <2>1. /\ r.row = req[q].row /\ r.key = req[q].key /\ r.resp = req[q].resp
        /\ r.pc = "commit"
    BY <1>0 DEF Request
  <2>2. /\ MayMisread /\ req[q].pc \in {"order", "reconcile"} /\ Local(q, r)
    BY <1>5 DEF BalanceRaises, ReconcileRaises
  <2>3. RowVisible(r)
    BY <1>0, <2>1, <2>2 DEF RowVisible, Locking
  <2> QED
    BY <2>2, <2>3, StuckLocal DEF Local
<1>6. CASE Submitted(q)
  <2>1. req[q].pc = "order" /\ UNCHANGED <<bot, idem>>
    BY <1>6 DEF Submitted
  <2>2. PICK o : req' = [req EXCEPT ![q] = AfterOrder(q, o)]
    BY <1>6 DEF Submitted
  <2> PICK r : r = AfterOrder(q, o)
    OBVIOUS
  <2>3. CASE o = "OPEN"
    <3>1. r = [req[q] EXCEPT !.pc = "reconcile"]
      BY <2>3 DEF AfterOrder
    <3>2. /\ r.row = req[q].row /\ r.key = req[q].key /\ r.resp = req[q].resp
          /\ r.pc = "reconcile"
      BY <1>0, <3>1 DEF Request
    <3>3. RowVisible(r)
      BY <1>0, <2>1, <3>2 DEF RowVisible, Locking
    <3> QED
      BY <2>1, <2>2, <3>3, StuckLocal
  <2>4. CASE o # "OPEN"
    <3>1. r = Concluded(q, o) /\ 0 \in Int
      BY <2>4 DEF AfterOrder
    <3>2. RowVisible(r)
      BY <1>2, <2>1, <3>1
    <3> QED
      BY <2>1, <2>2, <3>2, StuckLocal
  <2> QED
    BY <2>3, <2>4
<1> QED
  BY <1>1, <1>3, <1>4, <1>5, <1>6 DEF Transition, Reconcile

\* The key of a committed transaction was not committed before.  One that
\* leaves the bot in transit leaves its key unanswered, and was alone.
LEMMA CommitVisible ==
    ASSUME StuckInv, NEW q \in Slots, Commit(q)
    PROVE  Visible' /\ \A p \in Slots : RowVisible(req[p])'
<1> PICK k, row, answer :
       k = req[q].key /\ row = req[q].row /\ answer = req[q].resp
  OBVIOUS
<1>0. /\ BookInv /\ Frame /\ req \in [Slots -> Request]
      /\ \A p \in Slots : RowVisible(req[p])
      /\ Visible /\ bot \in Bot /\ req[q].pc = "commit"
      /\ k \in Keys /\ idem[k] = "absent"
      /\ idem \in [Keys -> Answers \cup {"absent"}]
  BY DEF Commit, StuckInv, BookInv, Frame, KeysOwned, TypeInv, TypeOK,
         WellPlaced, Owning, Locking
<1>1. /\ idem'[k] = answer /\ \A j \in Keys \ {k} : idem'[j] = idem[j]
      /\ bot' = IF row = NoBot /\ answer = "REJECTED" THEN bot ELSE row
      /\ req'[q].pc = "idle" /\ \A p \in Slots \ {q} : req'[p] = req[p]
  BY <1>0 DEF Commit, Idle
<1>2. /\ answer # "PROCESSING" => Unanswered' = Unanswered
      /\ answer = "PROCESSING" /\ k \in TransitionKeys =>
            Unanswered' = Unanswered \cup {k}
  BY <1>0, <1>1, KeyFacts DEF Unanswered
<1> DEFINE Alike == \/ bot'.status = bot.status
                    \/ bot.status \notin InTransit /\ bot'.status \notin InTransit
<1>3. ASSUME Alike, NEW p \in Slots
      PROVE  RowVisible(req[p])'
  <2>1. CASE p = q
    BY <1>1, <2>1 DEF RowVisible, Locking
  <2>2. CASE p # q
    <3> PICK x : x = req[p]
      OBVIOUS
    <3>1. RowVisible(x)
      BY <1>0
    <3>2. RowVisible(x)'
      BY <1>3, <3>1 DEF RowVisible
    <3> QED
      BY <1>1, <2>2, <3>2
  <2> QED
    BY <2>1, <2>2
<1> HIDE DEF Alike
<1>4. CASE bot.status \in InTransit
  <2>1. row.status = bot.status /\ answer # "PROCESSING"
    BY <1>0, <1>4 DEF RowVisible, Locking
  <2>2. bot'.status = bot.status /\ Unanswered' = Unanswered
    BY <1>1, <1>2, <2>1
  <2>3. Visible'
    BY <1>0, <2>2 DEF Visible
  <2>4. Alike
    BY <2>2 DEF Alike
  <2> QED
    BY <1>3, <2>3, <2>4
<1>5. CASE bot.status \notin InTransit
  <2>1. Unanswered = {}
    <3>1. \A j \in Unanswered : InProgress[j[1]] \in InTransit
      BY KeyFacts DEF Unanswered, InProgress, InTransit, Transitions
    <3> QED
      BY <1>0, <1>5, <3>1 DEF Visible
  <2>2. CASE answer # "PROCESSING"
    <3>1. row.status \notin InTransit
      BY <1>0, <1>5, <2>2 DEF RowVisible, Locking
    <3>2. bot'.status \notin InTransit
      BY <1>1, <1>5, <3>1
    <3>3. Visible'
      BY <1>2, <2>1, <2>2, <3>2 DEF Visible
    <3>4. Alike
      BY <1>5, <3>2 DEF Alike
    <3> QED
      BY <1>3, <3>3, <3>4
  <2>3. CASE answer = "PROCESSING"
    <3>1. /\ k[1] \in Transitions /\ row.status = InProgress[k[1]]
          /\ MayMisread
      BY <1>0, <1>5, <2>3 DEF RowVisible, Locking
    <3>2. k \in TransitionKeys
      BY <1>0, <3>1, KeyFacts
    <3>3. Unanswered' = {k}
      BY <1>2, <2>1, <2>3, <3>2
    <3>4. bot'.status = InProgress[k[1]]
      BY <1>1, <2>3, <3>1
    <3>5. Visible'
      BY <3>1, <3>3, <3>4 DEF Visible
    <3>6. Created /\ OpOf(q) # "create"
      BY <1>0, <2>3, <3>1 DEF Frame, NotYetCreated, OpOf, Transitions
    <3>7. ASSUME NEW p \in Slots
          PROVE  req'[p].pc \notin Locking
      <4>1. CASE p = q
        BY <1>1, <4>1 DEF Locking
      <4>2. CASE p # q
        BY <1>0, <1>1, <3>6, <4>2, LockedAlone DEF Locking
      <4> QED
        BY <4>1, <4>2
    <3>8. \A p \in Slots : RowVisible(req[p])'
      BY <3>7 DEF RowVisible
    <3> QED
      BY <3>5, <3>8
  <2> QED
    BY <2>2, <2>3
<1> QED
  BY <1>4, <1>5

LEMMA StuckStep ==
    ASSUME StuckInv, [Next]_vars
    PROVE  Visible' /\ \A p \in Slots : RowVisible(req[p])'
<1>0. /\ BookInv /\ req \in [Slots -> Request]
      /\ Visible /\ \A q \in Slots : RowVisible(req[q])
  BY DEF StuckInv, BookInv, Frame, TypeInv, TypeOK
<1>1. CASE UNCHANGED vars \/ \E k \in TransitionKeys : Execute(k)
  BY <1>0, <1>1 DEF vars, Execute, Visible, Unanswered, RowVisible
<1> SUFFICES ASSUME NEW q \in Slots,
                    \/ \E k \in KeysOf(q), target \in Quantities :
                          Receive(q, k, target)
                    \/ Handle(q) \/ Abort(q)
             PROVE  Visible' /\ \A p \in Slots : RowVisible(req[p])'
  BY <1>1 DEF Next
<1>2. ASSUME NEW r, req' = [req EXCEPT ![q] = r], UNCHANGED <<bot, idem>>,
             r.pc \notin Locking
      PROVE  Visible' /\ \A p \in Slots : RowVisible(req[p])'
  BY <1>2, StuckLocal DEF RowVisible
<1>3. ASSUME NEW k \in KeysOf(q), NEW target \in Quantities,
             Receive(q, k, target)
      PROVE  Visible' /\ \A p \in Slots : RowVisible(req[p])'
  <2> PICK r : r = [Idle EXCEPT !.pc = "reserve", !.key = k, !.arg = target]
    OBVIOUS
  <2>1. r.pc \notin Locking
    BY DEF Idle, Locking
  <2> QED
    BY <1>2, <1>3, <2>1 DEF Receive, Local
<1>4. CASE Reserve(q)
  <2> PICK r : r = [req[q] EXCEPT !.pc = "lock", !.resp = "PROCESSING"]
    OBVIOUS
  <2>1. r.pc \notin Locking
    BY <1>0 DEF Request, Locking
  <2> QED
    BY <1>2, <1>4, <2>1 DEF Reserve, Local
<1>5. CASE Repeat(q) \/ Abort(q)
  <2>1. Idle.pc \notin Locking
    BY DEF Idle, Locking
  <2> QED
    BY <1>2, <1>5, <2>1 DEF Repeat, Abort, Local
<1> QED
  BY <1>3, <1>4, <1>5, DecidedVisible, TransitionVisible, CommitVisible
  DEF Handle

-----------------------------------------------------------------------------
(* The theorems *)

LEMMA StuckAlways == Spec => []StuckInv
<1>1. StuckInv /\ [Next]_vars => StuckInv'
  BY StepBook, StuckStep DEF StuckInv
<1> QED
  BY <1>1, InitBook, PTL DEF Spec

\* The book of a bot in a working status agrees with its orders, whatever
\* pauses and resumes come side by side, are ambiguous at Binance or lose
\* their transaction, even after an order was placed: as long as no retry was
\* answered DONE from a lost order of another quantity.
THEOREM BookIsRight == Spec => []BookMatchesTrades
<1>1. StuckInv => BookMatchesTrades
  <2> SUFFICES ASSUME StuckInv, Settled, bot.status \in {"ACTIVE", "PAUSED"},
                      NoneMistaken
               PROVE  /\ bot.current = held
                      /\ bot.status = "PAUSED" => held = 0
    BY DEF BookMatchesTrades
  <2>1. Quiet
    BY DEF Settled, Quiet, Called
  <2> QED
    BY <2>1 DEF StuckInv, BookInv, Balanced
<1> QED
  BY <1>1, StuckAlways, PTL

\* The orders of a bot, those of lost transactions left out, never sell more
\* than they bought.
THEOREM NothingOversold == Spec => []NeverOversold
<1>1. StuckInv => NeverOversold
  BY DEF StuckInv, BookInv, Frame, TypeInv, Covered, NeverOversold
<1> QED
  BY <1>1, StuckAlways, PTL

\* A bot is found PAUSING or RESUMING only where Binance answered what the code
\* cannot read, never by a crash, and exactly while a transition's key still
\* says PROCESSING.
THEOREM NothingStuckUnseen == Spec => []StuckIsVisible
<1>1. StuckInv => StuckIsVisible
  BY DEF StuckInv, Visible, InTransit, StuckIsVisible
<1> QED
  BY <1>1, StuckAlways, PTL

\* As long as the code can read what Binance answers, the outcome table of
\* bot_service.py is kept: every transition ends in a stable status, with its
\* key answered, crashes included.
THEOREM ReadableAnswersConclude ==
    ASSUME ~MayMisread
    PROVE  Spec => []TransitionsConcluded
<1>1. StuckInv => TransitionsConcluded
  <2> SUFFICES ASSUME StuckInv
               PROVE  TransitionsConcluded
    OBVIOUS
  <2>1. bot.status \notin InTransit
    BY DEF StuckInv, Visible
  <2>2. \A j \in Unanswered : InProgress[j[1]] \in InTransit
    BY KeyFacts DEF Unanswered, InProgress, InTransit, Transitions
  <2>3. Unanswered = {}
    BY <2>1, <2>2 DEF StuckInv, Visible
  <2> QED
    BY <2>1, <2>3 DEF TransitionsConcluded, InTransit
<1> QED
  BY <1>1, StuckAlways, PTL

=============================================================================
