----------------------- MODULE SimulationLedger_proofs -----------------------
(***************************************************************************)
(* Theorems about SimulationLedger: its types, the bound on the overdraft, *)
(* snapshots that stay as they were written, and a ledger whose cash,      *)
(* position, P&L and snapshots are all accounted for by the orders, for    *)
(* any prices, targets, capital, slippage and number of orders and         *)
(* intervals.                                                              *)
(*                                                                         *)
(* The figures are recursive functions over the orders.  What such a       *)
(* function computes is proved by induction, and induction from the least  *)
(* element of a set of natural numbers, which the theorem that subset is   *)
(* well-founded on finite sets provides: it is stated over sets, so no     *)
(* lemma needs an operator for a parameter.                                *)
(***************************************************************************)
EXTENDS SimulationLedger, FiniteSetTheorems, WellFoundedInduction, TLAPS

-----------------------------------------------------------------------------
(* The arithmetic of a fill *)

\* What a fill moves is a natural number when both rates are percentages.
LEMMA FillTypes ==
    ASSUME NEW side \in OrderSide, NEW n \in Nat, NEW p \in Nat
    PROVE  /\ Notional(side, n, p) \in Nat
           /\ Fee(side, n, p) \in Nat
<1>1. /\ 100 + SlippagePct \in Nat
      /\ 100 - SlippagePct \in Nat
      /\ FeePct \in Nat
  BY LedgerAssumption
<1> DEFINE rate == IF side = "BUY" THEN 100 + SlippagePct ELSE 100 - SlippagePct
<1>2. rate \in Nat
  BY <1>1
<1>3. \A i, j \in Nat : i * j \in Nat
  OBVIOUS
<1>4. n * p * 100 \in Nat
  BY <1>3
<1> HIDE DEF rate
<1>5. n * p * 100 * rate \in Nat
  BY <1>2, <1>3, <1>4
<1>6. Notional(side, n, p) \in Nat
  BY <1>5 DEF Notional, rate
<1>7. \A m \in Nat : m \div 100 \in Nat
  OBVIOUS
<1>8. Fee(side, n, p) \in Nat
  BY <1>1, <1>3, <1>6, <1>7 DEF Fee
<1> QED
  BY <1>6, <1>8

\* The quantities of a bot are natural numbers, and so is the day.
LEMMA Naturals ==
    ASSUME TypeOK
    PROVE  /\ Quantities \subseteq Nat
           /\ Prices \subseteq Nat
           /\ Today \in Nat
           /\ bot.current \in Quantities /\ bot.target \in Quantities
           /\ \A side \in OrderSide : Wanted(side) \in Quantities
<1>1. /\ Quantities \subseteq Nat
      /\ Prices \subseteq Nat
  BY LedgerAssumption DEF Quantities
<1>2. bot.current \in Quantities /\ bot.target \in Quantities
  BY DEF TypeOK, Bot
<1>3. \A b \in Nat \ {0}, t \in Nat : t \div b \in Nat
  OBVIOUS
<1>4. Today \in Nat
  BY <1>3, LedgerAssumption DEF TypeOK, Intervals, Today
<1> QED
  BY <1>1, <1>2, <1>4 DEF Wanted

-----------------------------------------------------------------------------
(* Type correctness *)

LEMMA InitTypes == Init => TypeOK
<1> SUFFICES ASSUME Init PROVE TypeOK
  OBVIOUS
<1>1. bot \in Bot
  <2>1. PICK t \in Targets : bot = [status |-> "PAUSED", mode |-> "SIMULATION",
                                   current |-> 0, target |-> t]
    BY DEF Init
  <2> QED
    BY <2>1 DEF Bot, Status, Quantities
<1>2. cash \in Int /\ orders \in Seq(Order)
  BY LedgerAssumption DEF Init
<1>3. now \in Intervals
  BY LedgerAssumption DEF Init, Intervals
<1>4. tick \in Tick
  BY DEF Init, Tick, Started, Quantities
<1>5. snaps \in [Intervals -> Snapshot \cup {NoSnapshot}]
  BY DEF Init
<1> QED
  BY <1>1, <1>2, <1>3, <1>4, <1>5 DEF TypeOK

\* A transition that was filled leaves a bot.
LEMMA AdvancedType ==
    ASSUME TypeOK, NEW side \in OrderSide
    PROVE  Advanced(side) \in Bot
<1>1. bot \in Bot
  BY DEF TypeOK
<1>2. Opposite(bot.status) \in Status
  BY DEF Opposite, Status
<1> QED
  BY <1>1, <1>2, Naturals DEF Advanced, Bot, Quantities

\* Every row appended to the orders is one.
LEMMA RowType ==
    ASSUME TypeOK, NEW side \in OrderSide,
           NEW status \in {"FILLED", "REJECTED", "FAILED"}
    PROVE  Row(side, status) \in Order
  BY Naturals DEF Row, Order, Quantities

LEMMA FillKeepsTypes ==
    ASSUME TypeOK, NEW side \in OrderSide, NEW p \in Prices, Fill(side, p)
    PROVE  TypeOK'
<1> DEFINE n == Wanted(side)
           row == [Row(side, "FILLED") EXCEPT !.qty = n,
                       !.notional = Notional(side, n, p), !.fee = Fee(side, n, p)]
<1>1. n \in Quantities /\ n \in Nat /\ p \in Nat
  BY Naturals
<1>2. /\ Notional(side, n, p) \in Nat
      /\ Fee(side, n, p) \in Nat
  BY <1>1, FillTypes
<1>3. row \in Order
  <2>1. Row(side, "FILLED") \in Order
    BY RowType
  <2>2. \A r \in Order, m, q, f \in Nat :
           m \in Quantities =>
               [r EXCEPT !.qty = m, !.notional = q, !.fee = f] \in Order
    BY DEF Order
  <2> QED
    BY <1>1, <1>2, <2>1, <2>2
<1>4. orders' \in Seq(Order)
  <2>1. orders' = Append(orders, row)
    BY DEF Fill
  <2> QED
    BY <1>3, <2>1 DEF TypeOK
<1>5. cash' \in Int
  BY <1>2 DEF Fill, TypeOK
<1>6. bot' \in Bot
  BY AdvancedType DEF Fill
<1> QED
  BY <1>4, <1>5, <1>6 DEF Fill, TypeOK

LEMMA OrderKeepsTypes ==
    ASSUME TypeOK, NEW side \in OrderSide, Reject(side) \/ Fail(side) \/ Raise(side)
    PROVE  TypeOK'
<1>1. CASE Reject(side)
  BY <1>1, RowType DEF Reject, TypeOK
<1>2. [bot EXCEPT !.status = "ERROR"] \in Bot
  BY DEF TypeOK, Bot, Status
<1>3. CASE Fail(side)
  BY <1>2, <1>3, RowType DEF Fail, TypeOK
<1>4. CASE Raise(side)
  BY <1>2, <1>4 DEF Raise, TypeOK
<1> QED
  BY <1>1, <1>3, <1>4

LEMMA ChangeKeepsTypes ==
    ASSUME TypeOK, NEW b \in Bot, Change(b)
    PROVE  TypeOK'
  BY DEF Change, TypeOK

LEMMA OperationKeepsTypes ==
    ASSUME TypeOK,
           \/ \E side \in OrderSide : TradeLive(side)
           \/ \E n \in Targets : UpdateBot(n)
           \/ StopBot \/ ActivateLive \/ DeleteBot
    PROVE  TypeOK'
<1>0. bot \in Bot
  BY DEF TypeOK
<1>1. CASE \E side \in OrderSide : TradeLive(side)
  <2>1. PICK side \in OrderSide : TradeLive(side)
    BY <1>1
  <2>2. [bot EXCEPT !.status = "ERROR"] \in Bot
    BY <1>0 DEF Bot, Status
  <2> QED
    BY <2>1, <2>2, AdvancedType, ChangeKeepsTypes DEF TradeLive
<1>2. CASE \E n \in Targets : UpdateBot(n)
  <2>1. PICK n \in Targets : UpdateBot(n)
    BY <1>2
  <2>2. [bot EXCEPT !.target = n] \in Bot
    BY <1>0 DEF Bot, Quantities
  <2> QED
    BY <2>1, <2>2, ChangeKeepsTypes DEF UpdateBot
<1>3. CASE StopBot
  <2>1. [bot EXCEPT !.status = "STOPPED"] \in Bot
    BY <1>0 DEF Bot, Status
  <2> QED
    BY <1>3, <2>1, ChangeKeepsTypes DEF StopBot
<1>4. CASE ActivateLive
  <2>1. [bot EXCEPT !.mode = "LIVE"] \in Bot
    BY <1>0 DEF Bot
  <2> QED
    BY <1>4, <2>1, ChangeKeepsTypes DEF ActivateLive
<1>5. CASE DeleteBot
  <2>1. bot' \in Bot
    BY <1>0, <1>5 DEF DeleteBot, Bot, Status, Quantities
  <2> QED
    BY <1>5, <2>1 DEF DeleteBot, TypeOK
<1> QED
  BY <1>1, <1>2, <1>3, <1>4, <1>5

LEMMA SchedulerKeepsTypes ==
    ASSUME TypeOK, Scheduler \/ Restart \/ Advance
    PROVE  TypeOK'
<1>0. tick \in Tick /\ now \in Intervals /\ cash \in Int
  BY DEF TypeOK
<1>1. Started \in Tick
  BY DEF Started, Tick, Quantities
<1>2. Ended \in Tick
  BY <1>0, <1>1 DEF Ended, Tick
<1>3. ASSUME NEW t \in Tick, Step(t) PROVE TypeOK'
  BY <1>3 DEF Step, TypeOK
<1>4. CASE StartTick
  <2>1. [tick EXCEPT !.pc = "account"] \in Tick
    BY <1>0 DEF Tick
  <2> QED
    BY <1>3, <1>4, <2>1 DEF StartTick
<1>5. CASE ReadAccount
  <2>1. [tick EXCEPT !.pc = "position", !.cash = cash] \in Tick
    BY <1>0 DEF Tick
  <2> QED
    BY <1>2, <1>3, <1>5, <2>1 DEF ReadAccount
<1>6. CASE ReadPosition
  <2>1. [tick EXCEPT !.pc = "record", !.qty = bot.current] \in Tick
    BY <1>0, Naturals DEF Tick
  <2> QED
    BY <1>3, <1>6, <2>1 DEF ReadPosition
<1>7. CASE Skip
  BY <1>2, <1>3, <1>7 DEF Skip
<1>8. CASE Record
  <2>1. [cash |-> tick.cash, qty |-> tick.qty] \in Snapshot
    BY <1>0 DEF Tick, Snapshot
  <2>2. snaps' \in [Intervals -> Snapshot \cup {NoSnapshot}]
    BY <1>8, <2>1 DEF Record, TypeOK
  <2> QED
    BY <1>2, <1>8, <2>2 DEF Record, TypeOK
<1>9. CASE Restart
  BY <1>1, <1>3, <1>9 DEF Restart
<1>10. CASE Advance
  <2>1. now' \in Intervals
    BY <1>0, <1>10, LedgerAssumption DEF Advance, Intervals
  <2> QED
    BY <1>10, <2>1 DEF Advance, TypeOK
<1> QED
  BY <1>4, <1>5, <1>6, <1>7, <1>8, <1>9, <1>10 DEF Scheduler

LEMMA StepTypes == TypeOK /\ [Next]_vars => TypeOK'
<1> SUFFICES ASSUME TypeOK, [Next]_vars PROVE TypeOK'
  OBVIOUS
<1>1. CASE \E side \in OrderSide : Trade(side)
  BY <1>1, FillKeepsTypes, OrderKeepsTypes DEF Trade
<1>2. CASE UNCHANGED vars
  BY <1>2 DEF vars, TypeOK
<1> QED
  BY <1>1, <1>2, OperationKeepsTypes, SchedulerKeepsTypes DEF Next

\* Every reachable state is well typed: no status, side or quantity outside its
\* column's type is ever written.
THEOREM LedgerTypes == Spec => []TypeOK
  BY InitTypes, StepTypes, PTL DEF Spec

-----------------------------------------------------------------------------
(* The overdraft *)

\* What a purchase of value x costs beyond what the check asked for is the
\* product of the two rates.
LEMMA PurchaseCost ==
    ASSUME NEW x \in Nat, NEW c \in Int,
           x * 100 * (100 + FeePct + SlippagePct) <= c
    PROVE  LET notional == x * 100 * (100 + SlippagePct)
           IN  c - (notional + (notional \div 100) * FeePct)
                   >= -(x * FeePct * SlippagePct)
<1> DEFINE a  == x * (100 + SlippagePct)
           xf == x * FeePct
           xs == x * SlippagePct
           xfs == x * FeePct * SlippagePct
<1>0. FeePct \in Nat /\ SlippagePct \in Nat
  BY LedgerAssumption
<1>1. a \in Nat /\ xf \in Nat /\ xs \in Nat /\ xfs \in Nat
  BY <1>0
<1>2. a = 100 * x + xs
  BY <1>0
<1>3. a * FeePct = 100 * xf + xfs
  BY <1>0
<1>4. x * 100 * (100 + SlippagePct) = 100 * a
  BY <1>0
<1>5. x * 100 * (100 + FeePct + SlippagePct) = 10000 * x + 100 * xf + 100 * xs
  BY <1>0
<1>6. \A k \in Nat : (100 * k) \div 100 = k
  OBVIOUS
<1>7. (100 * a) \div 100 = a
  BY <1>1, <1>6
<1> HIDE DEF a, xf, xs, xfs
<1>8. c - (100 * a + (100 * xf + xfs)) >= -xfs
  BY <1>1, <1>2, <1>5
<1> QED
  BY <1>3, <1>4, <1>7, <1>8 DEF xfs

\* A fee of at most the whole notional leaves a sale something to pay in.
LEMMA SaleProceeds ==
    ASSUME FeePct <= 100, NEW n \in Nat, NEW p \in Nat
    PROVE  Fee("SELL", n, p) <= Notional("SELL", n, p)
<1> DEFINE a == n * p * (100 - SlippagePct)
<1>0. FeePct \in Nat /\ 100 - SlippagePct \in Nat
  BY LedgerAssumption
<1>1. \A i, j \in Nat : i * j \in Nat
  OBVIOUS
<1>2. a \in Nat
  BY <1>0, <1>1
<1>3. Notional("SELL", n, p) = 100 * a
  BY <1>0 DEF Notional
<1> HIDE DEF a
<1>4. \A k \in Nat : (100 * k) \div 100 = k
  OBVIOUS
<1>5. Fee("SELL", n, p) = a * FeePct
  BY <1>2, <1>3, <1>4 DEF Fee
<1>6. \A k \in Nat : k * FeePct <= 100 * k
  BY <1>0
<1> QED
  BY <1>2, <1>3, <1>5, <1>6

LEMMA FillBounded ==
    ASSUME FeePct <= 100, TypeOK, OverdraftBounded,
           NEW side \in OrderSide, NEW p \in Prices, Fill(side, p)
    PROVE  OverdraftBounded'
<1> DEFINE n == Wanted(side)
<1>0. n \in Nat /\ p \in Nat /\ cash \in Int
  BY Naturals DEF TypeOK
<1>1. CASE side = "SELL"
  <2>1. cash' = cash + (Notional("SELL", n, p) - Fee("SELL", n, p))
    BY <1>1 DEF Fill
  <2>2. cash' >= cash /\ cash' \in Int
    <3>1. "SELL" \in OrderSide
      BY DEF OrderSide
    <3>2. /\ Notional("SELL", n, p) \in Nat /\ Fee("SELL", n, p) \in Nat
          /\ Fee("SELL", n, p) <= Notional("SELL", n, p)
      BY <1>0, <3>1, FillTypes, SaleProceeds
    <3> QED
      BY <1>0, <2>1, <3>2
  <2>3. \A m \in Targets, r \in Prices : m * r * FeePct * SlippagePct \in Int
    BY LedgerAssumption
  <2> QED
    BY <1>0, <2>2, <2>3 DEF OverdraftBounded
<1>2. CASE side = "BUY"
  <2> DEFINE x == n * p
  <2>0. x \in Nat /\ FeePct \in Nat /\ SlippagePct \in Nat
    BY <1>0, LedgerAssumption
  <2>1. Notional("BUY", n, p) = x * 100 * (100 + SlippagePct)
    BY <1>0, <2>0 DEF Notional
  <2>2. x * 100 * (100 + FeePct + SlippagePct) <= cash
    BY <1>2 DEF Fill, Affordable
  <2>3. cash' = cash - (Notional("BUY", n, p)
                          + (Notional("BUY", n, p) \div 100) * FeePct)
    BY <1>2 DEF Fill, Fee
  <2> HIDE DEF n
  <2>4. cash' >= -(x * FeePct * SlippagePct)
    BY <1>0, <2>0, <2>1, <2>2, <2>3, PurchaseCost
  <2>5. cash' \in Int
    BY <1>2, FillKeepsTypes DEF TypeOK
  <2>6. ASSUME NEW m \in Targets, NEW r \in Prices,
               \A k \in Targets, t \in Prices : k * t <= m * r
        PROVE  cash' >= -(m * r * FeePct * SlippagePct)
    <3>1. m \in Nat /\ r \in Nat
      BY LedgerAssumption
    <3>2. x <= m * r
      <4>1. n \in Targets \cup {0}
        BY Naturals DEF n, Quantities
      <4>2. CASE n \in Targets
        BY <2>6, <4>2
      <4>3. CASE n = 0
        BY <1>0, <3>1, <4>3
      <4> QED
        BY <4>1, <4>2, <4>3
    <3>3. \A i, j, k, l \in Nat : i <= j => i * k * l <= j * k * l
      <4>1. \A i, j, k \in Nat : i <= j => i * k <= j * k
        OBVIOUS
      <4>2. \A i, k \in Nat : i * k \in Nat
        OBVIOUS
      <4> QED
        BY <4>1, <4>2
    <3>4. x * FeePct * SlippagePct <= m * r * FeePct * SlippagePct
      BY <2>0, <3>1, <3>2, <3>3
    <3>5. /\ x * FeePct * SlippagePct \in Int
          /\ m * r * FeePct * SlippagePct \in Int
      BY <2>0, <3>1
    <3> HIDE DEF x
    <3> QED
      BY <2>4, <2>5, <3>4, <3>5
  <2> QED
    BY <2>6 DEF OverdraftBounded
<1> QED
  BY <1>1, <1>2 DEF OrderSide

\* Every other step leaves the account alone, or deletes it.
LEMMA OthersBounded ==
    ASSUME OverdraftBounded, cash' = cash \/ cash' = 0
    PROVE  OverdraftBounded'
<1>1. ASSUME NEW m \in Targets, NEW r \in Prices
      PROVE  0 >= -(m * r * FeePct * SlippagePct)
  <2>1. m \in Nat /\ r \in Nat /\ FeePct \in Nat /\ SlippagePct \in Nat
    BY LedgerAssumption
  <2>2. \A i, k \in Nat : i * k \in Nat
    OBVIOUS
  <2>3. m * r * FeePct * SlippagePct \in Nat
    BY <2>1, <2>2
  <2> QED
    BY <2>3
<1> QED
  BY <1>1 DEF OverdraftBounded

LEMMA StepBounded ==
    ASSUME FeePct <= 100, TypeOK, OverdraftBounded, [Next]_vars
    PROVE  OverdraftBounded'
<1>1. CASE \E side \in OrderSide, p \in Prices : Fill(side, p)
  BY <1>1, FillBounded
<1>2. CASE ~ \E side \in OrderSide, p \in Prices : Fill(side, p)
  <2>1. cash' = cash \/ cash' = 0
    BY <1>2 DEF Next, Trade, Reject, Fail, Raise, TradeLive, UpdateBot, StopBot,
                ActivateLive, DeleteBot, Change, Scheduler, StartTick,
                ReadAccount, ReadPosition, Skip, Record, Restart, Advance, Step,
                vars
  <2> QED
    BY <2>1, OthersBounded
<1> QED
  BY <1>1, <1>2

\* The virtual account is overdrawn by no more than the product of the two
\* rates of its dearest purchase, for all rates up to 100 per cent: a dearer
\* fee would let a sale take money out of the account.
THEOREM OverdraftIsBounded ==
    ASSUME FeePct <= 100
    PROVE  Spec => []OverdraftBounded
<1>1. Init => OverdraftBounded
  <2> SUFFICES ASSUME Init,
                      NEW m \in Targets, NEW r \in Prices
               PROVE  cash >= -(m * r * FeePct * SlippagePct)
    BY DEF OverdraftBounded
  <2>1. m \in Nat /\ r \in Nat /\ FeePct \in Nat /\ SlippagePct \in Nat
    BY LedgerAssumption
  <2>2. \A i, k \in Nat : i * k \in Nat
    OBVIOUS
  <2>3. m * r * FeePct * SlippagePct \in Nat
    BY <2>1, <2>2
  <2>4. cash \in Nat
    BY LedgerAssumption DEF Init
  <2> QED
    BY <2>3, <2>4
<1>2. TypeOK /\ OverdraftBounded /\ [Next]_vars => OverdraftBounded'
  BY StepBounded
<1> QED
  BY <1>1, <1>2, LedgerTypes, PTL DEF Spec

-----------------------------------------------------------------------------
(* Snapshots *)

\* A snapshot that is recorded stays as it is while its bot exists, whatever
\* later ticks, restarts and deletions do.
THEOREM SnapshotsAreFinal == Spec => SnapshotsFinal
<1> DEFINE Kept == \A t \in Intervals :
                       snaps[t] # NoSnapshot /\ bot'.status # "absent"
                           => snaps'[t] = snaps[t]
<1>1. TypeOK /\ TypeOK' /\ [Next]_vars => Kept
  <2> SUFFICES ASSUME TypeOK, TypeOK', [Next]_vars PROVE Kept
    OBVIOUS
  <2>1. CASE Record
    BY <2>1 DEF Record, TypeOK
  <2>2. CASE DeleteBot
    <3>1. bot'.status = "absent"
      BY <2>2 DEF DeleteBot, TypeOK, Bot
    <3> QED
      BY <3>1
  <2>3. CASE ~Record /\ ~DeleteBot
    <3>1. snaps' = snaps
      BY <2>3 DEF Next, Trade, Fill, Reject, Fail, Raise, TradeLive, UpdateBot,
                  StopBot, ActivateLive, Change, Scheduler, StartTick,
                  ReadAccount, ReadPosition, Skip, Restart, Advance, Step, vars
    <3> QED
      BY <3>1
  <2> QED
    BY <2>1, <2>2, <2>3
<1>2. TypeOK /\ TypeOK' /\ [Next]_vars => [Kept]_vars
  BY <1>1
<1> QED
  BY <1>2, LedgerTypes, PTL DEF Spec, SnapshotsFinal

-----------------------------------------------------------------------------
(* Induction and recursion *)

\* A nonempty set of natural numbers has a least element.
LEMMA LeastNat ==
    ASSUME NEW T \in SUBSET Nat, T # {}
    PROVE  \E x \in T : \A y \in T : x <= y
<1> DEFINE U == {0..x : x \in T}
<1>1. U \subseteq FiniteSubsetsOf(Nat) /\ U # {}
  <2>1. ASSUME NEW x \in T
        PROVE  0..x \in FiniteSubsetsOf(Nat)
    <3>1. IsFiniteSet(0..x)
      BY FS_Interval
    <3> QED
      BY <3>1 DEF FiniteSubsetsOf
  <2> QED
    BY <2>1
<1>2. PICK m \in U : \A n \in U : <<n, m>> \notin StrictSubsetOrdering(Nat)
  <2>1. IsWellFoundedOn(StrictSubsetOrdering(Nat), FiniteSubsetsOf(Nat))
    BY FS_StrictSubsetOrderingWellFounded
  <2> HIDE DEF U
  <2> QED
    BY <1>1, <2>1, WFMin
<1>3. PICK x \in T : m = 0..x
  BY <1>2
<1>4. ASSUME NEW y \in T, y < x
      PROVE  FALSE
  <2>1. 0..y \in U
    OBVIOUS
  <2>2. 0..y \subseteq 0..x /\ 0..y # 0..x
    <3>1. x \in 0..x /\ x \notin 0..y
      BY <1>4
    <3> QED
      BY <1>4, <3>1
  <2>3. 0..y \in SUBSET Nat /\ 0..x \in SUBSET Nat
    OBVIOUS
  <2>4. <<0..y, 0..x>> \in StrictSubsetOrdering(Nat)
    BY <2>2, <2>3 DEF StrictSubsetOrdering
  <2> QED
    BY <1>2, <1>3, <2>1, <2>4
<1> QED
  BY <1>4

\* Induction over a set: it holds every number if it holds 0 and successors.
LEMMA Induction ==
    ASSUME NEW S, 0 \in S, \A n \in Nat : n \in S => n + 1 \in S
    PROVE  \A n \in Nat : n \in S
<1> SUFFICES ASSUME Nat \ S # {}
             PROVE  FALSE
  OBVIOUS
<1>1. PICK x \in Nat \ S : \A y \in Nat \ S : x <= y
  BY LeastNat
<1>2. x # 0 /\ x - 1 \in Nat
  OBVIOUS
<1>3. x - 1 \in S
  BY <1>1, <1>2
<1>4. (x - 1) + 1 = x
  OBVIOUS
<1> QED
  BY <1>2, <1>3, <1>4

\* r is what a recursion over 1..n with values in V runs through.
Runs(r, n, V, base, step) ==
    /\ r \in [0..n -> V]
    /\ r[0] = base
    /\ \A i \in 1..n : r[i] = step[<<i, r[i - 1]>>]

\* g takes the same steps wherever it is known to be in V.
Follows(g, n, V, base, step) ==
    /\ g[0] = base
    /\ \A i \in 1..n : g[i - 1] \in V => g[i] = step[<<i, g[i - 1]>>]

\* Every recursion with typed steps has a run.
LEMMA RunExists ==
    ASSUME NEW V, NEW base \in V, NEW N \in Nat, NEW step \in [(1..N) \X V -> V]
    PROVE  \E r : Runs(r, N, V, base, step)
<1> DEFINE P(n) == \E r : Runs(r, n, V, base, step)
           S == {n \in Nat : n <= N => P(n)}
<1>1. 0 \in S
  <2> PICK r : r = [i \in 0..0 |-> base]
    OBVIOUS
  <2>1. Runs(r, 0, V, base, step)
    BY DEF Runs
  <2> QED
    BY <2>1
<1>2. ASSUME NEW n \in Nat, n \in S, n + 1 <= N
      PROVE  P(n + 1)
  <2>1. n <= N /\ P(n)
    BY <1>2
  <2>2. PICK g : Runs(g, n, V, base, step)
    BY <2>1
  <2> PICK k \in Nat : k = n + 1
    OBVIOUS
  <2> PICK h : h = [i \in 0..k |-> IF i = k THEN step[<<k, g[n]>>] ELSE g[i]]
    OBVIOUS
  <2>3. k \in 1..N /\ n \in 0..n /\ g \in [0..n -> V]
    BY <1>2, <2>2 DEF Runs
  <2>4. step[<<k, g[n]>>] \in V
    BY <2>3
  <2>5. \A i \in 0..k : i # k => i \in 0..n
    OBVIOUS
  <2>6. h \in [0..k -> V]
    BY <2>3, <2>4, <2>5
  <2>7. h[0] = base
    BY <2>2 DEF Runs
  <2>8. ASSUME NEW i \in 1..k
        PROVE  h[i] = step[<<i, h[i - 1]>>]
    <3>1. i - 1 \in 0..k /\ i - 1 # k
      OBVIOUS
    <3>2. h[i - 1] = g[i - 1]
      BY <3>1
    <3>3. CASE i = k
      <4>1. i - 1 = n /\ h[k] = step[<<k, g[n]>>]
        BY <3>3
      <4> QED
        BY <3>2, <3>3, <4>1
    <3>4. CASE i # k
      <4>1. i \in 1..n
        BY <3>4
      <4>2. g[i] = step[<<i, g[i - 1]>>]
        BY <2>2, <4>1 DEF Runs
      <4>3. h[i] = g[i]
        BY <3>4
      <4> QED
        BY <3>2, <4>2, <4>3
    <3> QED
      BY <3>3, <3>4
  <2>9. Runs(h, k, V, base, step)
    BY <2>6, <2>7, <2>8 DEF Runs
  <2> QED
    BY <2>9
<1>3. ASSUME NEW n \in Nat, n \in S
      PROVE  n + 1 \in S
  <2>1. CASE n + 1 <= N
    BY <1>2, <1>3, <2>1
  <2>2. CASE ~ (n + 1 <= N)
    BY <2>2
  <2> QED
    BY <2>1, <2>2
<1> HIDE DEF S
<1>4. N \in S
  BY <1>1, <1>3, Induction
<1>5. N <= N => P(N)
  BY <1>4 DEF S
<1> QED
  BY <1>5

\* Whatever takes the same steps runs through the same values.
LEMMA RunsAgree ==
    ASSUME NEW V, NEW base, NEW n \in Nat, NEW step,
           NEW f, Runs(f, n, V, base, step),
           NEW g, Follows(g, n, V, base, step)
    PROVE  \A i \in 0..n : g[i] = f[i]
<1> DEFINE S == {i \in Nat : i <= n => g[i] = f[i]}
<1>1. 0 \in S
  BY DEF Runs, Follows
<1>2. ASSUME NEW i \in Nat, i \in S
      PROVE  i + 1 \in S
  <2> SUFFICES ASSUME i + 1 <= n
               PROVE  g[i + 1] = f[i + 1]
    OBVIOUS
  <2> PICK k \in Nat : k = i + 1
    OBVIOUS
  <2>1. i \in 0..n /\ k \in 1..n /\ k \in 0..n /\ k # 0 /\ k - 1 = i
    OBVIOUS
  <2>2. g[i] = f[i] /\ f[i] \in V
    BY <1>2, <2>1 DEF Runs
  <2>3. f[k] = step[<<k, f[i]>>]
    BY <2>1 DEF Runs
  <2>4. g[k] = step[<<k, g[i]>>]
    BY <2>1, <2>2 DEF Follows
  <2> QED
    BY <2>2, <2>3, <2>4
<1> HIDE DEF S
<1>3. \A i \in Nat : i \in S
  BY <1>1, <1>2, Induction
<1> QED
  BY <1>3 DEF S

-----------------------------------------------------------------------------
(* The books of a sequence of orders *)

Book == [cash : Int, held : Int, fills : Nat]
BookStep(s) == [x \in (1..Len(s)) \X Book |-> Booked(x[2], s[x[1]])]

\* An order turns books into books.
LEMMA BookedType ==
    ASSUME NEW book \in Book, NEW o \in Order
    PROVE  Booked(book, o) \in Book
<1>1. o.notional \in Int /\ o.fee \in Int
  BY DEF Order
<1>2. o.qty \in Int
  <2>1. Quantities \subseteq Int
    BY LedgerAssumption DEF Quantities
  <2> QED
    BY <2>1 DEF Order
<1> QED
  BY <1>1, <1>2 DEF Booked, Book, BuyCost, SellProceeds

\* The definition of Books is met: there is such a function, and it is typed.
LEMMA BooksRun ==
    ASSUME NEW s \in Seq(Order)
    PROVE  Runs(Books(s), Len(s), Book, Opened, BookStep(s))
<1> DEFINE n == Len(s)
           step == BookStep(s)
           Eq(book) == book = [i \in 0..n |->
                          IF i = 0 THEN Opened ELSE Booked(book[i - 1], s[i])]
<1>1. n \in Nat /\ \A i \in 1..n : s[i] \in Order
  OBVIOUS
<1>2. step \in [(1..n) \X Book -> Book]
  BY <1>1, BookedType DEF BookStep
<1>3. \A i \in 1..n, book \in Book : step[<<i, book>>] = Booked(book, s[i])
  BY DEF BookStep
<1>4. Opened \in Book
  BY LedgerAssumption DEF Opened, Book
<1>5. Books(s) = CHOOSE book : Eq(book)
  BY DEF Books
<1> HIDE DEF n, step
<1>6. PICK r : Runs(r, n, Book, Opened, step)
  BY <1>1, <1>2, <1>4, RunExists
<1>7. Eq(r)
  <2>1. /\ r \in [0..n -> Book] /\ r[0] = Opened
        /\ \A i \in 1..n : r[i] = step[<<i, r[i - 1]>>]
    BY <1>6 DEF Runs
  <2>2. \A i \in 1..n : r[i - 1] \in Book
    BY <1>1, <2>1
  <2>3. \A i \in 1..n : r[i] = Booked(r[i - 1], s[i])
    BY <1>3, <2>1, <2>2
  <2>4. \A i \in 0..n : i = 0 \/ i \in 1..n
    BY <1>1
  <2> QED
    BY <2>1, <2>3, <2>4
<1> HIDE DEF Eq
<1>8. PICK b : Eq(b) /\ Books(s) = b
  <2> PICK c : c = CHOOSE book : Eq(book)
    OBVIOUS
  <2>1. Eq(c)
    BY <1>7
  <2> QED
    BY <1>5, <2>1
<1> USE DEF Eq
<1>9. \A i \in 1..n : b[i] = Booked(b[i - 1], s[i])
  BY <1>1, <1>8
<1>10. Follows(b, n, Book, Opened, step)
  <2>1. b[0] = Opened
    BY <1>1, <1>8
  <2> QED
    BY <1>3, <1>9, <2>1 DEF Follows
<1>11. \A i \in 0..n : b[i] = r[i]
  <2>1. n \in Nat
    BY <1>1
  <2> HIDE DEF Eq
  <2> QED
    BY <1>6, <1>10, <2>1, RunsAgree
<1>12. b = r
  BY <1>6, <1>8, <1>11 DEF Runs
<1> QED
  BY <1>6, <1>8, <1>12 DEF n, step

\* A new order leaves the earlier books alone and makes one step more.
LEMMA BooksGrow ==
    ASSUME NEW s \in Seq(Order), NEW o \in Order
    PROVE  /\ \A i \in 0..Len(s) : Books(Append(s, o))[i] = Books(s)[i]
           /\ Books(Append(s, o))[Len(s) + 1] = Booked(Books(s)[Len(s)], o)
<1>0. Append(s, o) \in Seq(Order)
  OBVIOUS
<1> PICK t \in Seq(Order) : t = Append(s, o)
  BY <1>0
<1> PICK n \in Nat : n = Len(s)
  OBVIOUS
<1>1. Len(t) = n + 1 /\ t[n + 1] = o /\ \A i \in 1..n : t[i] = s[i]
  OBVIOUS
<1>2. Runs(Books(s), n, Book, Opened, BookStep(s))
  BY BooksRun
<1>3. Runs(Books(t), n + 1, Book, Opened, BookStep(t))
  BY <1>1, BooksRun
<1>4. \A i \in 1..(n + 1), book \in Book :
         BookStep(t)[<<i, book>>] = Booked(book, t[i])
  BY <1>1 DEF BookStep
<1>5. \A i \in 1..n, book \in Book : BookStep(s)[<<i, book>>] = Booked(book, s[i])
  BY DEF BookStep
<1>6. Follows(Books(t), n, Book, Opened, BookStep(s))
  <2>1. ASSUME NEW i \in 1..n, Books(t)[i - 1] \in Book
        PROVE  Books(t)[i] = BookStep(s)[<<i, Books(t)[i - 1]>>]
    <3>1. i \in 1..(n + 1)
      OBVIOUS
    <3>2. Books(t)[i] = BookStep(t)[<<i, Books(t)[i - 1]>>]
      BY <1>3, <3>1 DEF Runs
    <3> QED
      BY <1>1, <1>4, <1>5, <2>1, <3>1, <3>2
  <2> QED
    BY <1>3, <2>1 DEF Follows, Runs
<1>7. \A i \in 0..n : Books(t)[i] = Books(s)[i]
  BY <1>2, <1>6, RunsAgree
<1>8. Books(t)[n + 1] = Booked(Books(s)[n], o)
  <2> PICK k : k = n + 1
    OBVIOUS
  <2>1. k \in 1..(n + 1) /\ k - 1 = n /\ n \in 0..n
    OBVIOUS
  <2>2. Books(s)[n] \in Book
    BY <1>2, <2>1 DEF Runs
  <2>3. Books(t)[k] = BookStep(t)[<<k, Books(t)[k - 1]>>]
    BY <1>3, <2>1 DEF Runs
  <2>4. Books(t)[k - 1] = Books(s)[n]
    BY <1>7, <2>1
  <2>5. Books(t)[k] = Booked(Books(s)[n], t[k])
    BY <1>4, <2>1, <2>2, <2>3, <2>4
  <2> QED
    BY <1>1, <2>5
<1> QED
  BY <1>7, <1>8

-----------------------------------------------------------------------------
(* The walk over the orders that computes the realized P&L *)

Walk == [open : BOOLEAN, cost : Int, realized : Int, trips : Nat]
WalkStep(s, day) == [x \in (1..Len(s)) \X Walk |-> Paired(x[2], s[x[1]], day)]

\* An order turns the state of a walk into one.
LEMMA PairedType ==
    ASSUME NEW walk \in Walk, NEW o \in Order, NEW day
    PROVE  Paired(walk, o, day) \in Walk
<1>1. o.notional \in Int /\ o.fee \in Int
  BY DEF Order
<1>2. BuyCost(o) \in Int /\ SellProceeds(o) \in Int
  BY <1>1 DEF BuyCost, SellProceeds
<1>3. [walk EXCEPT !.open = TRUE, !.cost = BuyCost(o)] \in Walk
  BY <1>2 DEF Walk
<1>4. walk.realized + (IF o.day = day THEN SellProceeds(o) - walk.cost ELSE 0) \in Int
  BY <1>2 DEF Walk
<1>5. \A x \in Int : [open |-> FALSE, cost |-> 0, realized |-> x,
                     trips |-> walk.trips + 1] \in Walk
  BY DEF Walk
<1> QED
  BY <1>3, <1>4, <1>5 DEF Paired

\* The definition of PairUp is met.
LEMMA PairUpRuns ==
    ASSUME NEW s \in Seq(Order), NEW day
    PROVE  Runs(PairUp(s, day), Len(s), Walk, NoOpenBuy, WalkStep(s, day))
<1> DEFINE n == Len(s)
           step == WalkStep(s, day)
           Eq(walk) == walk = [i \in 0..n |->
                  IF i = 0 THEN NoOpenBuy ELSE Paired(walk[i - 1], s[i], day)]
<1>1. n \in Nat /\ \A i \in 1..n : s[i] \in Order
  OBVIOUS
<1>2. step \in [(1..n) \X Walk -> Walk]
  BY <1>1, PairedType DEF WalkStep
<1>3. \A i \in 1..n, walk \in Walk : step[<<i, walk>>] = Paired(walk, s[i], day)
  BY DEF WalkStep
<1>4. NoOpenBuy \in Walk
  BY DEF NoOpenBuy, Walk
<1>5. PairUp(s, day) = CHOOSE walk : Eq(walk)
  BY DEF PairUp
<1> HIDE DEF n, step
<1>6. PICK r : Runs(r, n, Walk, NoOpenBuy, step)
  BY <1>1, <1>2, <1>4, RunExists
<1>7. Eq(r)
  <2>1. /\ r \in [0..n -> Walk] /\ r[0] = NoOpenBuy
        /\ \A i \in 1..n : r[i] = step[<<i, r[i - 1]>>]
    BY <1>6 DEF Runs
  <2>2. \A i \in 1..n : r[i - 1] \in Walk
    BY <1>1, <2>1
  <2>3. \A i \in 1..n : r[i] = Paired(r[i - 1], s[i], day)
    BY <1>3, <2>1, <2>2
  <2>4. \A i \in 0..n : i = 0 \/ i \in 1..n
    BY <1>1
  <2> QED
    BY <2>1, <2>3, <2>4
<1> HIDE DEF Eq
<1>8. PICK w : Eq(w) /\ PairUp(s, day) = w
  <2> PICK c : c = CHOOSE walk : Eq(walk)
    OBVIOUS
  <2>1. Eq(c)
    BY <1>7
  <2> QED
    BY <1>5, <2>1
<1> USE DEF Eq
<1>9. \A i \in 1..n : w[i] = Paired(w[i - 1], s[i], day)
  BY <1>1, <1>8
<1>10. Follows(w, n, Walk, NoOpenBuy, step)
  <2>1. w[0] = NoOpenBuy
    BY <1>1, <1>8
  <2> QED
    BY <1>3, <1>9, <2>1 DEF Follows
<1>11. \A i \in 0..n : w[i] = r[i]
  <2>1. n \in Nat
    BY <1>1
  <2> HIDE DEF Eq
  <2> QED
    BY <1>6, <1>10, <2>1, RunsAgree
<1>12. w = r
  BY <1>6, <1>8, <1>11 DEF Runs
<1> QED
  BY <1>6, <1>8, <1>12 DEF n, step

\* A new order makes one step more of the walk.
LEMMA PairUpGrows ==
    ASSUME NEW s \in Seq(Order), NEW o \in Order, NEW day
    PROVE  PairUp(Append(s, o), day)[Len(s) + 1]
               = Paired(PairUp(s, day)[Len(s)], o, day)
<1>0. Append(s, o) \in Seq(Order)
  OBVIOUS
<1> PICK t \in Seq(Order) : t = Append(s, o)
  BY <1>0
<1> PICK n \in Nat : n = Len(s)
  OBVIOUS
<1>1. Len(t) = n + 1 /\ t[n + 1] = o /\ \A i \in 1..n : t[i] = s[i]
  OBVIOUS
<1>2. Runs(PairUp(s, day), n, Walk, NoOpenBuy, WalkStep(s, day))
  BY PairUpRuns
<1>3. Runs(PairUp(t, day), n + 1, Walk, NoOpenBuy, WalkStep(t, day))
  BY <1>1, PairUpRuns
<1>4. \A i \in 1..(n + 1), walk \in Walk :
         WalkStep(t, day)[<<i, walk>>] = Paired(walk, t[i], day)
  BY <1>1 DEF WalkStep
<1>5. \A i \in 1..n, walk \in Walk :
         WalkStep(s, day)[<<i, walk>>] = Paired(walk, s[i], day)
  BY DEF WalkStep
<1>6. Follows(PairUp(t, day), n, Walk, NoOpenBuy, WalkStep(s, day))
  <2>1. ASSUME NEW i \in 1..n, PairUp(t, day)[i - 1] \in Walk
        PROVE  PairUp(t, day)[i] = WalkStep(s, day)[<<i, PairUp(t, day)[i - 1]>>]
    <3>1. i \in 1..(n + 1)
      OBVIOUS
    <3>2. PairUp(t, day)[i] = WalkStep(t, day)[<<i, PairUp(t, day)[i - 1]>>]
      BY <1>3, <3>1 DEF Runs
    <3> QED
      BY <1>1, <1>4, <1>5, <2>1, <3>1, <3>2
  <2> QED
    BY <1>3, <2>1 DEF Follows, Runs
<1>7. \A i \in 0..n : PairUp(t, day)[i] = PairUp(s, day)[i]
  BY <1>2, <1>6, RunsAgree
<1> PICK k : k = n + 1
  OBVIOUS
<1>8. k \in 1..(n + 1) /\ k - 1 = n /\ n \in 0..n
  OBVIOUS
<1>9. PairUp(s, day)[n] \in Walk
  BY <1>2, <1>8 DEF Runs
<1>10. PairUp(t, day)[k] = WalkStep(t, day)[<<k, PairUp(t, day)[k - 1]>>]
  BY <1>3, <1>8 DEF Runs
<1>11. PairUp(t, day)[k - 1] = PairUp(s, day)[n]
  BY <1>7, <1>8
<1>12. PairUp(t, day)[k] = Paired(PairUp(s, day)[n], t[k], day)
  BY <1>4, <1>8, <1>9, <1>10, <1>11
<1> QED
  BY <1>1, <1>12

\* What the walks of a sequence come to has its type.
LEMMA LastTypes ==
    ASSUME NEW s \in Seq(Order)
    PROVE  /\ Books(s)[Len(s)] \in Book
           /\ \A day : PairUp(s, day)[Len(s)] \in Walk
           /\ \A day : RealizedPnlOn(s, day) \in Int
<1>1. Len(s) \in 0..Len(s)
  OBVIOUS
<1>2. Books(s)[Len(s)] \in Book
  BY <1>1, BooksRun DEF Runs
<1>3. ASSUME NEW day
      PROVE  PairUp(s, day)[Len(s)] \in Walk
  <2>1. Runs(PairUp(s, day), Len(s), Walk, NoOpenBuy, WalkStep(s, day))
    BY PairUpRuns
  <2> QED
    BY <1>1, <2>1 DEF Runs
<1> QED
  BY <1>2, <1>3 DEF RealizedPnlOn, Walk

-----------------------------------------------------------------------------
(* The P&L of all days *)

\* The days are 0..LastDay.
LEMMA LastDayType == LastDay \in Nat
<1>1. \A b \in Nat \ {0}, t \in Nat : t \div b \in Nat
  OBVIOUS
<1> QED
  BY <1>1, LedgerAssumption DEF LastDay

PnlStep(s) == [x \in (1..LastDay) \X Int |-> x[2] + RealizedPnlOn(s, x[1])]

\* The definition of PnlUpTo is met.
LEMMA PnlRuns ==
    ASSUME NEW s \in Seq(Order)
    PROVE  /\ PnlUpTo(s) \in [0..LastDay -> Int]
           /\ PnlUpTo(s)[0] = RealizedPnlOn(s, 0)
           /\ \A d \in 1..LastDay :
                 PnlUpTo(s)[d] = PnlUpTo(s)[d - 1] + RealizedPnlOn(s, d)
<1> DEFINE n == LastDay
           base == RealizedPnlOn(s, 0)
           step == PnlStep(s)
           Eq(total) == total = [d \in 0..n |->
               IF d = 0 THEN base ELSE total[d - 1] + RealizedPnlOn(s, d)]
<1>0. n \in Nat
  BY LastDayType
<1>1. \A d : RealizedPnlOn(s, d) \in Int
  BY LastTypes
<1>2. step \in [(1..n) \X Int -> Int]
  BY <1>1 DEF PnlStep
<1>3. \A d \in 1..n, v \in Int : step[<<d, v>>] = v + RealizedPnlOn(s, d)
  BY DEF PnlStep
<1>4. base \in Int
  BY <1>1
<1>5. PnlUpTo(s) = CHOOSE total : Eq(total)
  BY DEF PnlUpTo
<1> HIDE DEF n, base, step
<1>6. PICK r : Runs(r, n, Int, base, step)
  BY <1>0, <1>2, <1>4, RunExists
<1>7. /\ r \in [0..n -> Int] /\ r[0] = base
      /\ \A d \in 1..n : r[d] = r[d - 1] + RealizedPnlOn(s, d)
  <2>1. /\ r \in [0..n -> Int] /\ r[0] = base
        /\ \A d \in 1..n : r[d] = step[<<d, r[d - 1]>>]
    BY <1>6 DEF Runs
  <2>2. \A d \in 1..n : r[d - 1] \in Int
    BY <1>0, <2>1
  <2> QED
    BY <1>3, <2>1, <2>2
<1>8. Eq(r)
  <2>1. \A d \in 0..n : d = 0 \/ d \in 1..n
    BY <1>0
  <2> QED
    BY <1>7, <2>1
<1> HIDE DEF Eq
<1>9. PICK p : Eq(p) /\ PnlUpTo(s) = p
  <2> PICK c : c = CHOOSE total : Eq(total)
    OBVIOUS
  <2>1. Eq(c)
    BY <1>8
  <2> QED
    BY <1>5, <2>1
<1> USE DEF Eq
<1>10. \A d \in 1..n : p[d] = p[d - 1] + RealizedPnlOn(s, d)
  BY <1>0, <1>9
<1>11. Follows(p, n, Int, base, step)
  <2>1. p[0] = base
    BY <1>0, <1>9
  <2> QED
    BY <1>3, <1>10, <2>1 DEF Follows
<1>12. \A d \in 0..n : p[d] = r[d]
  <2> HIDE DEF Eq
  <2> QED
    BY <1>0, <1>6, <1>11, RunsAgree
<1>13. p = r
  BY <1>7, <1>9, <1>12
<1> QED
  BY <1>7, <1>9, <1>13 DEF n, base

\* The orders t made x more than s on day e, and the same on every other day.
Gains(s, t, e, x) ==
    \A d \in 0..LastDay :
        RealizedPnlOn(t, d) = RealizedPnlOn(s, d) + IF d = e THEN x ELSE 0

\* A change of one day's P&L is a change of the total by as much.
LEMMA PnlAdds ==
    ASSUME NEW s \in Seq(Order), NEW t \in Seq(Order),
           NEW e \in 0..LastDay, NEW x \in Int, Gains(s, t, e, x)
    PROVE  PnlUpTo(t)[LastDay] = PnlUpTo(s)[LastDay] + x
<1> PICK A : /\ A = PnlUpTo(s)
             /\ A \in [0..LastDay -> Int] /\ A[0] = RealizedPnlOn(s, 0)
             /\ \A d \in 1..LastDay : A[d] = A[d - 1] + RealizedPnlOn(s, d)
  BY PnlRuns
<1> PICK B : /\ B = PnlUpTo(t)
             /\ B \in [0..LastDay -> Int] /\ B[0] = RealizedPnlOn(t, 0)
             /\ \A d \in 1..LastDay : B[d] = B[d - 1] + RealizedPnlOn(t, d)
  BY PnlRuns
<1> DEFINE S == {d \in Nat : d <= LastDay => B[d] = A[d] + IF e <= d THEN x ELSE 0}
<1>0. LastDay \in Nat /\ e \in Nat /\ \A d : RealizedPnlOn(s, d) \in Int
  BY LastDayType, LastTypes
<1>1. 0 \in S
  <2>1. 0 \in 0..LastDay
    BY <1>0
  <2>2. RealizedPnlOn(t, 0) = RealizedPnlOn(s, 0) + IF 0 = e THEN x ELSE 0
    BY <2>1 DEF Gains
  <2>3. e <= 0 <=> 0 = e
    BY <1>0
  <2> QED
    BY <2>2, <2>3
<1>2. ASSUME NEW d \in Nat, d \in S
      PROVE  d + 1 \in S
  <2> SUFFICES ASSUME d + 1 <= LastDay
               PROVE  B[d + 1] = A[d + 1] + IF e <= d + 1 THEN x ELSE 0
    OBVIOUS
  <2> PICK k \in Nat : k = d + 1
    OBVIOUS
  <2>1. k \in 1..LastDay /\ k \in 0..LastDay /\ d \in 0..LastDay /\ k - 1 = d
    BY <1>0
  <2>2. B[k] = B[d] + RealizedPnlOn(t, k)
    BY <2>1
  <2>3. A[k] = A[d] + RealizedPnlOn(s, k)
    BY <2>1
  <2>4. B[d] = A[d] + IF e <= d THEN x ELSE 0
    BY <1>2, <2>1
  <2>5. RealizedPnlOn(t, k) = RealizedPnlOn(s, k) + IF k = e THEN x ELSE 0
    BY <2>1 DEF Gains
  <2>6. A[d] \in Int /\ RealizedPnlOn(s, k) \in Int
    BY <1>0, <2>1
  <2>7. e <= k <=> (e <= d \/ k = e)
    BY <1>0
  <2>8. ~(e <= d /\ k = e)
    BY <1>0
  <2>9. B[k] = A[k] + IF e <= k THEN x ELSE 0
    BY <2>2, <2>3, <2>4, <2>5, <2>6, <2>7, <2>8
  <2> QED
    BY <2>9
<1> HIDE DEF S
<1>3. LastDay \in S
  BY <1>0, <1>1, <1>2, Induction
<1>4. B[LastDay] = A[LastDay] + IF e <= LastDay THEN x ELSE 0
  BY <1>3 DEF S
<1> QED
  BY <1>0, <1>4

-----------------------------------------------------------------------------
(* What an order does to the figures *)

\* Cash and P&L of the orders agree: at most one BUY is open, every walk has it
\* open, and what the days made is what the account has more than at first, but
\* for what the open BUY cost.
Squared(s) ==
    LET book == Books(s)[Len(s)]
        walk(day) == PairUp(s, day)[Len(s)]
    IN  /\ \A day \in 0..LastDay :
              /\ walk(day).open <=> book.held # 0
              /\ walk(day).cost = walk(0).cost
              /\ walk(day).trips = walk(0).trips
        /\ PnlUpTo(s)[LastDay]
              = book.cash - Capital + IF book.held = 0 THEN 0 ELSE walk(0).cost
        /\ 2 * walk(0).trips + (IF book.held = 0 THEN 0 ELSE 1) = book.fills

\* An order that the bot can have traded, given what is held before it: all of
\* it is sold, and nothing is bought while something is held.
Fits(o, held) ==
    /\ o.day \in 0..LastDay
    /\ \/ o.status # "FILLED"
       \/ o.side = "BUY" /\ held = 0 /\ o.qty # 0
       \/ o.side = "SELL" /\ held # 0 /\ o.qty = held

\* Such an order keeps cash and P&L in agreement.
LEMMA SquaredGrows ==
    ASSUME NEW s \in Seq(Order), NEW o \in Order,
           Squared(s), Fits(o, Books(s)[Len(s)].held)
    PROVE  Squared(Append(s, o))
<1>0. Append(s, o) \in Seq(Order) /\ Len(Append(s, o)) = Len(s) + 1
  OBVIOUS
<1> PICK t \in Seq(Order) : t = Append(s, o)
  BY <1>0
<1> DEFINE W(d) == PairUp(s, d)[Len(s)]
           X(d) == PairUp(t, d)[Len(t)]
<1> PICK b \in Book : b = Books(s)[Len(s)]
  BY LastTypes
<1> PICK c \in Book : c = Books(t)[Len(t)]
  BY LastTypes
<1>1. c = Booked(b, o)
  BY <1>0, BooksGrow
<1>2. \A d : X(d) = Paired(W(d), o, d)
  BY <1>0, PairUpGrows
<1>3. \A d : W(d) \in Walk
  BY LastTypes
<1>4. /\ \A d \in 0..LastDay : /\ W(d).open <=> b.held # 0
                               /\ W(d).cost = W(0).cost
                               /\ W(d).trips = W(0).trips
      /\ PnlUpTo(s)[LastDay] = b.cash - Capital + IF b.held = 0 THEN 0 ELSE W(0).cost
      /\ 2 * W(0).trips + (IF b.held = 0 THEN 0 ELSE 1) = b.fills
  BY DEF Squared
<1>5. Fits(o, b.held)
  OBVIOUS
<1>6. \A d : /\ RealizedPnlOn(s, d) = W(d).realized
             /\ RealizedPnlOn(t, d) = X(d).realized
  BY DEF RealizedPnlOn
<1>7. 0 \in 0..LastDay /\ o.day \in 0..LastDay
  BY <1>5, LastDayType DEF Fits
<1>8. /\ b.cash \in Int /\ b.held \in Int /\ b.fills \in Nat
      /\ o.qty \in Int /\ BuyCost(o) \in Int /\ SellProceeds(o) \in Int
      /\ PnlUpTo(s)[LastDay] \in Int
  <2>1. b.cash \in Int /\ b.held \in Int /\ b.fills \in Nat
    BY DEF Book
  <2>2. o.notional \in Int /\ o.fee \in Int
    BY DEF Order
  <2>3. BuyCost(o) \in Int /\ SellProceeds(o) \in Int
    BY <2>2 DEF BuyCost, SellProceeds
  <2>4. Quantities \subseteq Int
    BY LedgerAssumption DEF Quantities
  <2>5. o.qty \in Int
    BY <2>4 DEF Order
  <2>6. PnlUpTo(s)[LastDay] \in Int
    BY PnlRuns, LastDayType
  <2> QED
    BY <2>1, <2>3, <2>5, <2>6
<1>9. Capital \in Int
  BY LedgerAssumption
<1> SUFFICES /\ \A d \in 0..LastDay : /\ X(d).open <=> c.held # 0
                                      /\ X(d).cost = X(0).cost
                                      /\ X(d).trips = X(0).trips
             /\ PnlUpTo(t)[LastDay]
                    = c.cash - Capital + IF c.held = 0 THEN 0 ELSE X(0).cost
             /\ 2 * X(0).trips + (IF c.held = 0 THEN 0 ELSE 1) = c.fills
  BY DEF Squared
<1> HIDE DEF W, X
<1> PICK p \in Int : p = PnlUpTo(s)[LastDay]
  BY <1>8
<1> PICK q : q = PnlUpTo(t)[LastDay]
  OBVIOUS
<1>10. ASSUME NEW x \in Int,
              \A d \in 0..LastDay :
                 X(d).realized = W(d).realized + IF d = o.day THEN x ELSE 0
       PROVE  q = p + x
  <2>1. Gains(s, t, o.day, x)
    BY <1>6, <1>10 DEF Gains
  <2> QED
    BY <1>7, <2>1, PnlAdds
<1>11. ASSUME \A d \in 0..LastDay : X(d).realized = W(d).realized
       PROVE  q = p
  <2>1. \A d : W(d).realized \in Int
    BY <1>3 DEF Walk
  <2>2. \A d \in 0..LastDay :
            X(d).realized = W(d).realized + IF d = o.day THEN 0 ELSE 0
    BY <1>11, <2>1
  <2>3. q = p + 0
    BY <1>10, <2>2
  <2> QED
    BY <2>3
<1>12. CASE o.status # "FILLED"
  <2>1. c = b /\ \A d : X(d) = W(d)
    BY <1>1, <1>2, <1>12 DEF Booked, Paired
  <2>2. q = p
    BY <1>11, <2>1
  <2> QED
    BY <1>4, <2>1, <2>2
<1>13. CASE o.status = "FILLED" /\ o.side = "BUY"
  <2>1. b.held = 0 /\ o.qty # 0
    BY <1>5, <1>13 DEF Fits
  <2>2. /\ c.cash = b.cash - BuyCost(o) /\ c.held = b.held + o.qty
        /\ c.fills = b.fills + 1
    BY <1>1, <1>13 DEF Booked
  <2>3. ASSUME NEW d
        PROVE  /\ X(d).open = TRUE /\ X(d).cost = BuyCost(o)
               /\ X(d).realized = W(d).realized /\ X(d).trips = W(d).trips
    <3>1. X(d) = [W(d) EXCEPT !.open = TRUE, !.cost = BuyCost(o)]
      BY <1>2, <1>13 DEF Paired
    <3> QED
      BY <1>3, <3>1 DEF Walk
  <2>5. q = p
    BY <1>11, <2>3
  <2>6. c.held # 0
    BY <1>8, <2>1, <2>2
  <2>7. q = c.cash - Capital + X(0).cost
    <3>1. p = b.cash - Capital
      BY <1>4, <1>8, <1>9, <2>1
    <3>2. X(0).cost = BuyCost(o) /\ c.cash = b.cash - BuyCost(o)
      BY <2>2, <2>3
    <3>3. PICK i \in Int, j \in Int, k \in Int :
             i = b.cash /\ j = BuyCost(o) /\ k = Capital
      BY <1>8, <1>9
    <3>4. (i - j) - k + j = i - k
      OBVIOUS
    <3> QED
      BY <2>5, <3>1, <3>2, <3>3, <3>4
  <2>8. 2 * X(0).trips + 1 = c.fills
    <3>1. W(0).trips \in Nat
      BY <1>3 DEF Walk
    <3>2. 2 * W(0).trips = b.fills
      BY <1>4, <1>8, <2>1, <3>1
    <3> QED
      BY <2>2, <2>3, <3>2
  <2>9. \A d \in 0..LastDay : X(d).trips = X(0).trips
    BY <1>4, <2>3
  <2> QED
    BY <2>3, <2>6, <2>7, <2>8, <2>9
<1>14. CASE o.status = "FILLED" /\ o.side # "BUY"
  <2>1. b.held # 0 /\ o.qty = b.held
    BY <1>5, <1>14 DEF Fits
  <2>2. /\ c.cash = b.cash + SellProceeds(o) /\ c.held = b.held - o.qty
        /\ c.fills = b.fills + 1
    BY <1>1, <1>14 DEF Booked
  <2>3. ASSUME NEW d \in 0..LastDay
        PROVE  /\ ~X(d).open /\ X(d).cost = 0
               /\ X(d).realized = W(d).realized
                     + IF d = o.day THEN SellProceeds(o) - W(0).cost ELSE 0
               /\ X(d).trips = W(0).trips + 1
    <3>1. W(d).open /\ W(d).cost = W(0).cost /\ W(d).trips = W(0).trips
      BY <1>4, <2>1
    <3> QED
      BY <1>2, <1>14, <3>1 DEF Paired
  <2>4. W(0).cost \in Int /\ W(0).trips \in Nat
    BY <1>3 DEF Walk
  <2>5. q = p + (SellProceeds(o) - W(0).cost)
    <3> PICK x \in Int : x = SellProceeds(o) - W(0).cost
      BY <1>8, <2>4
    <3> QED
      BY <1>10, <2>3
  <2>6. c.held = 0
    BY <1>8, <2>1, <2>2
  <2>7. q = c.cash - Capital
    <3>1. PICK i \in Int, j \in Int, k \in Int, l \in Int :
             i = b.cash /\ j = SellProceeds(o) /\ k = Capital /\ l = W(0).cost
      BY <1>8, <1>9, <2>4
    <3>2. p = i - k + l
      BY <1>4, <2>1, <3>1
    <3>3. c.cash = i + j /\ q = p + (j - l)
      BY <2>2, <2>5, <3>1
    <3>4. q = c.cash - k
      BY <3>2, <3>3
    <3> QED
      BY <3>1, <3>4
  <2>8. 2 * X(0).trips = c.fills
    <3>1. PICK i \in Nat : i = W(0).trips
      BY <2>4
    <3>2. 2 * i + 1 = b.fills
      BY <1>4, <2>1, <3>1
    <3>3. X(0).trips = i + 1 /\ c.fills = b.fills + 1
      BY <1>7, <2>2, <2>3, <3>1
    <3>4. 2 * (i + 1) = (2 * i + 1) + 1
      OBVIOUS
    <3> QED
      BY <3>2, <3>3, <3>4
  <2>9. c.cash \in Int /\ X(0).trips \in Nat
    <3>1. X(0) \in Walk
      BY LastTypes DEF X
    <3> QED
      BY <3>1 DEF Book, Walk
  <2>10. \A d \in 0..LastDay : /\ X(d).open <=> c.held # 0
                               /\ X(d).cost = X(0).cost
                               /\ X(d).trips = X(0).trips
    <3>1. X(0).cost = 0 /\ X(0).trips = W(0).trips + 1
      BY <1>7, <2>3
    <3> QED
      BY <2>3, <2>6, <3>1
  <2> QED
    BY <1>9, <2>6, <2>7, <2>8, <2>9, <2>10
<1> QED
  BY <1>12, <1>13, <1>14

-----------------------------------------------------------------------------
(* The ledger and the bot *)

\* What makes the ledger's figures inductive: a bot that trades has bought all it
\* holds in one order, and a paused one holds nothing.
Explained(b, c, s) ==
    b.status # "absent" =>
        LET book == Books(s)[Len(s)] IN
        /\ c = book.cash
        /\ b.target # 0
        /\ b.mode = "SIMULATION" =>
              /\ b.current = book.held
              /\ b.status = "PAUSED" => b.current = 0
              /\ b.status = "ACTIVE" => b.current # 0
        /\ Squared(s)
LedgerInv == Explained(bot, cash, orders)

\* Orders are closed on one of the days.
LEMMA TodayInDays ==
    ASSUME TypeOK
    PROVE  Today \in 0..LastDay
<1>1. \A b \in Nat \ {0}, t, u \in Nat : t <= u => t \div b \in 0..(u \div b)
  <2> SUFFICES ASSUME NEW b \in Nat \ {0}, NEW t \in Nat, NEW u \in Nat, t <= u
               PROVE  t \div b \in 0..(u \div b)
    OBVIOUS
  <2>1. t \div b \in Nat /\ u \div b \in Nat
    OBVIOUS
  <2>2. b * (t \div b) <= t /\ u < b * ((u \div b) + 1)
    OBVIOUS
  <2>3. \A i, j \in Nat : b * i < b * (j + 1) => i <= j
    OBVIOUS
  <2> QED
    BY <2>1, <2>2, <2>3
<1>2. /\ BucketsPerDay \in Nat \ {0} /\ now \in Nat /\ MaxTime \in Nat
      /\ now <= MaxTime
  BY LedgerAssumption DEF TypeOK, Intervals
<1>3. now \div BucketsPerDay \in 0..(MaxTime \div BucketsPerDay)
  BY <1>1, <1>2
<1> QED
  BY <1>3 DEF Today, LastDay

\* Without orders the account has its capital and no day has any P&L.
LEMMA InitExplained == Init => LedgerInv
<1> SUFFICES ASSUME Init PROVE LedgerInv
  OBVIOUS
<1> PICK s : s = << >>
  OBVIOUS
<1>1. s \in Seq(Order) /\ Len(s) = 0
  OBVIOUS
<1>2. Books(s)[0] = Opened
  BY <1>1, BooksRun DEF Runs
<1>3. \A day : PairUp(s, day)[0] = NoOpenBuy
  BY <1>1, PairUpRuns DEF Runs
<1>4. \A day : RealizedPnlOn(s, day) = 0
  BY <1>1, <1>3 DEF RealizedPnlOn, NoOpenBuy
<1>5. PnlUpTo(s)[LastDay] = 0
  <2> PICK A : /\ A = PnlUpTo(s)
               /\ A \in [0..LastDay -> Int] /\ A[0] = RealizedPnlOn(s, 0)
               /\ \A d \in 1..LastDay : A[d] = A[d - 1] + RealizedPnlOn(s, d)
    BY <1>1, PnlRuns
  <2> DEFINE S == {d \in Nat : d <= LastDay => A[d] = 0}
  <2>1. 0 \in S
    BY <1>4
  <2>2. ASSUME NEW d \in Nat, d \in S
        PROVE  d + 1 \in S
    <3> SUFFICES ASSUME d + 1 <= LastDay
                 PROVE  A[d + 1] = 0
      OBVIOUS
    <3> PICK k \in Nat : k = d + 1
      OBVIOUS
    <3>1. k \in 1..LastDay /\ k - 1 = d /\ d <= LastDay
      BY LastDayType
    <3>2. A[d] = 0
      BY <2>2, <3>1
    <3>3. A[k] = A[d] + RealizedPnlOn(s, k)
      BY <3>1
    <3>4. A[k] = 0
      BY <1>4, <3>2, <3>3
    <3> QED
      BY <3>4
  <2> HIDE DEF S
  <2>3. LastDay \in S
    BY <2>1, <2>2, LastDayType, Induction
  <2> QED
    BY <2>3, LastDayType DEF S
<1>6. Squared(s)
  BY <1>1, <1>2, <1>3, <1>5, LedgerAssumption DEF Squared, Opened, NoOpenBuy
<1>7. /\ cash = Capital /\ orders = s /\ bot.current = 0 /\ bot.status = "PAUSED"
      /\ bot.target # 0
  BY LedgerAssumption DEF Init
<1> QED
  BY <1>1, <1>2, <1>6, <1>7 DEF LedgerInv, Explained, Opened

\* An order that is not filled changes no figure.
LEMMA UnfilledExplained ==
    ASSUME NEW b, NEW d, NEW c, NEW s \in Seq(Order), NEW o \in Order,
           Explained(b, c, s), b.status # "absent",
           o.status # "FILLED", o.day \in 0..LastDay,
           d.mode = b.mode, d.current = b.current, d.target = b.target,
           d.status \in {b.status, "ERROR"}
    PROVE  Explained(d, c, Append(s, o))
<1>1. Squared(s)
  BY DEF Explained
<1>2. Fits(o, Books(s)[Len(s)].held)
  BY DEF Fits
<1>3. Squared(Append(s, o))
  BY <1>1, <1>2, SquaredGrows
<1>4. Len(Append(s, o)) = Len(s) + 1
  OBVIOUS
<1>5. Books(Append(s, o))[Len(s) + 1] = Books(s)[Len(s)]
  BY BooksGrow DEF Booked
<1> QED
  BY <1>3, <1>4, <1>5 DEF Explained

\* A fill moves cash and position by what its row says.
LEMMA FillExplained ==
    ASSUME TypeOK, LedgerInv, NEW side \in OrderSide, NEW p \in Prices,
           Fill(side, p)
    PROVE  Explained(bot', cash', orders')
<1> DEFINE n == Wanted(side)
           row == [Row(side, "FILLED") EXCEPT !.qty = n,
                       !.notional = Notional(side, n, p), !.fee = Fee(side, n, p)]
<1>1. bot.mode = "SIMULATION" /\ bot.status = IF side = "BUY" THEN "PAUSED" ELSE "ACTIVE"
  BY DEF Fill, MayTrade
<1>2. orders' = Append(orders, row) /\ bot' = Advanced(side)
  BY DEF Fill
<1>3. /\ n \in Quantities /\ Notional(side, n, p) \in Nat /\ Fee(side, n, p) \in Nat
      /\ n \in Nat
  BY Naturals, FillTypes
<1>4. /\ row.side = side /\ row.status = "FILLED" /\ row.qty = n /\ row.day = Today
      /\ row.notional = Notional(side, n, p) /\ row.fee = Fee(side, n, p)
  BY DEF Row
<1> PICK s \in Seq(Order) : s = orders
  BY DEF TypeOK
<1> PICK book \in Book : book = Books(s)[Len(s)]
  BY LastTypes
<1>5. /\ cash = book.cash /\ bot.current = book.held /\ Squared(s)
      /\ bot.target # 0
      /\ bot.status = "PAUSED" => bot.current = 0
      /\ bot.status = "ACTIVE" => bot.current # 0
  BY <1>1 DEF LedgerInv, Explained
<1>6. row \in Order
  <2>1. Row(side, "FILLED") \in Order
    BY RowType
  <2>2. \A r \in Order, m, q, f \in Nat :
           m \in Quantities =>
               [r EXCEPT !.qty = m, !.notional = q, !.fee = f] \in Order
    BY DEF Order
  <2> QED
    BY <1>3, <2>1, <2>2
<1> HIDE DEF row
<1> PICK o \in Order : o = row
  BY <1>6
<1>7. n # 0 /\ (side = "BUY" => n = bot.target) /\ (side = "SELL" => n = bot.current)
  <2>1. CASE side = "BUY"
    BY <1>5, <2>1 DEF Wanted
  <2>2. CASE side = "SELL"
    BY <1>1, <1>5, <2>2 DEF Wanted
  <2> QED
    BY <2>1, <2>2 DEF OrderSide
<1>8. Fits(o, book.held)
  <2>1. o.day \in 0..LastDay
    BY <1>4, TodayInDays
  <2> QED
    BY <1>1, <1>4, <1>5, <1>7, <2>1 DEF Fits, OrderSide
<1>9. Squared(Append(s, o))
  BY <1>5, <1>8, SquaredGrows
<1>10. Books(Append(s, o))[Len(s) + 1] = Booked(book, o) /\ Len(Append(s, o)) = Len(s) + 1
  BY BooksGrow
<1> PICK b : b = bot'
  OBVIOUS
<1> PICK c : c = cash'
  OBVIOUS
<1>11. CASE side = "BUY"
  <2>1. Booked(book, o).cash = c
    BY <1>3, <1>4, <1>5, <1>11 DEF Booked, BuyCost, Fill
  <2>2. Booked(book, o).held = n
    BY <1>1, <1>3, <1>4, <1>5, <1>11 DEF Booked
  <2>3. b.current = n /\ b.status = "ACTIVE"
    BY <1>1, <1>2, <1>7, <1>11 DEF Advanced, Opposite, TypeOK, Bot
  <2>5. b.target # 0
    BY <1>2, <1>5 DEF Advanced, TypeOK, Bot
  <2>4. Explained(b, c, Append(s, o))
    BY <1>7, <1>9, <1>10, <2>1, <2>2, <2>3, <2>5 DEF Explained
  <2> QED
    BY <1>2, <2>4
<1>12. CASE side = "SELL"
  <2>1. Booked(book, o).cash = c
    BY <1>3, <1>4, <1>5, <1>12 DEF Booked, SellProceeds, Fill
  <2>2. Booked(book, o).held = 0
    BY <1>3, <1>4, <1>5, <1>7, <1>12 DEF Booked
  <2>3. b.current = 0 /\ b.status = "PAUSED"
    BY <1>1, <1>2, <1>12 DEF Advanced, Opposite, TypeOK, Bot
  <2>5. b.target # 0
    BY <1>2, <1>5 DEF Advanced, TypeOK, Bot
  <2>4. Explained(b, c, Append(s, o))
    BY <1>9, <1>10, <2>1, <2>2, <2>3, <2>5 DEF Explained
  <2> QED
    BY <1>2, <2>4
<1> QED
  BY <1>11, <1>12 DEF OrderSide

\* A rejection and a failure change no figure.
LEMMA OrderExplained ==
    ASSUME TypeOK, LedgerInv, NEW side \in OrderSide, Reject(side) \/ Fail(side)
    PROVE  Explained(bot', cash', orders')
<1> PICK s \in Seq(Order) : s = orders
  BY DEF TypeOK
<1>1. PICK status \in {"REJECTED", "FAILED"} : orders' = Append(s, Row(side, status))
  BY DEF Reject, Fail
<1> PICK o \in Order : o = Row(side, status)
  BY RowType
<1>2. o.status # "FILLED" /\ o.day \in 0..LastDay
  BY TodayInDays DEF Row
<1>3. cash' = cash
  BY DEF Reject, Fail
<1> PICK b : b = bot'
  OBVIOUS
<1>4. b = bot \/ b = [bot EXCEPT !.status = "ERROR"]
  BY DEF Reject, Fail
<1>5. /\ b.mode = bot.mode /\ b.current = bot.current /\ b.target = bot.target
      /\ b.status \in {bot.status, "ERROR"}
  BY <1>4 DEF TypeOK, Bot
<1>6. bot.status # "absent"
  BY DEF Reject, Fail, MayTrade
<1>7. Explained(bot, cash, s)
  BY DEF LedgerInv
<1>8. Explained(b, cash, Append(s, o))
  BY <1>2, <1>5, <1>6, <1>7, UnfilledExplained
<1> QED
  BY <1>1, <1>3, <1>8

\* What the other operations make of the bot.
Tolerated(b, d) ==
    d.status # "absent" =>
        /\ b.status # "absent"
        /\ d.target # 0 \/ d.target = b.target
        /\ d.mode = "SIMULATION" =>
              /\ b.mode = "SIMULATION"
              /\ d.current = b.current
              /\ d.status \in {b.status, "ERROR", "STOPPED"}

\* Such a change of the bot leaves the ledger explained.
LEMMA ToleratedExplained ==
    ASSUME NEW b, NEW d, NEW c, NEW s, Explained(b, c, s), Tolerated(b, d)
    PROVE  Explained(d, c, s)
  BY DEF Explained, Tolerated

\* Every step without a new order is one of those.
LEMMA OthersTolerated ==
    ASSUME TypeOK, [Next]_vars,
           \A side \in OrderSide :
               /\ \A p \in Prices : ~Fill(side, p)
               /\ ~Reject(side) /\ ~Fail(side)
    PROVE  /\ Tolerated(bot, bot')
           /\ bot'.status # "absent" => cash' = cash /\ orders' = orders
<1> PICK b : b = bot'
  OBVIOUS
<1> PICK a \in Bot : a = bot
  BY DEF TypeOK
<1>1. CASE \E side \in OrderSide : Raise(side)
  BY <1>1 DEF Raise, MayTrade, Tolerated, Bot
<1>2. CASE \E side \in OrderSide : TradeLive(side)
  <2>1. PICK side \in OrderSide : TradeLive(side)
    BY <1>2
  <2>2. a.mode = "LIVE" /\ cash' = cash /\ orders' = orders
        /\ a.status # "absent" /\ (b = Advanced(side) \/ b = [a EXCEPT !.status = "ERROR"])
    BY <2>1 DEF TradeLive, Change
  <2>3. b.mode = "LIVE" /\ b.target = a.target
    BY <2>2 DEF Advanced, Bot
  <2> QED
    BY <2>2, <2>3 DEF Tolerated
<1>3. CASE \E n \in Targets : UpdateBot(n)
  <2>1. PICK n \in Targets : UpdateBot(n)
    BY <1>3
  <2>2. b = [a EXCEPT !.target = n] /\ cash' = cash /\ orders' = orders
        /\ a.status # "absent" /\ n # 0
    BY <2>1, LedgerAssumption DEF UpdateBot, Change
  <2> QED
    BY <2>2 DEF Tolerated, Bot
<1>4. CASE StopBot
  <2>1. b = [a EXCEPT !.status = "STOPPED"] /\ cash' = cash /\ orders' = orders
        /\ a.status # "absent"
    BY <1>4 DEF StopBot, Change
  <2> QED
    BY <2>1 DEF Tolerated, Bot
<1>5. CASE ActivateLive
  <2>1. b = [a EXCEPT !.mode = "LIVE"] /\ cash' = cash /\ orders' = orders
        /\ a.status # "absent"
    BY <1>5 DEF ActivateLive, Change
  <2> QED
    BY <2>1 DEF Tolerated, Bot
<1>6. CASE DeleteBot
  <2>1. b.status = "absent"
    BY <1>6 DEF DeleteBot, Bot
  <2> QED
    BY <2>1 DEF Tolerated
<1>7. CASE Scheduler \/ Restart \/ Advance \/ UNCHANGED vars
  <2>1. b = a /\ cash' = cash /\ orders' = orders
    BY <1>7 DEF Scheduler, StartTick, ReadAccount, ReadPosition, Skip, Record,
                Restart, Advance, Step, vars
  <2> QED
    BY <2>1 DEF Tolerated
<1> QED
  BY <1>1, <1>2, <1>3, <1>4, <1>5, <1>6, <1>7 DEF Next, Trade

\* LedgerInv is inductive.
LEMMA StepExplained == TypeOK /\ LedgerInv /\ [Next]_vars => LedgerInv'
<1> SUFFICES ASSUME TypeOK, LedgerInv, [Next]_vars
             PROVE  Explained(bot', cash', orders')
  BY DEF LedgerInv
<1>1. CASE \E side \in OrderSide, p \in Prices : Fill(side, p)
  BY <1>1, FillExplained
<1>2. CASE \E side \in OrderSide : Reject(side) \/ Fail(side)
  BY <1>2, OrderExplained
<1>3. CASE \A side \in OrderSide : /\ \A p \in Prices : ~Fill(side, p)
                                   /\ ~Reject(side) /\ ~Fail(side)
  <2>1. /\ Tolerated(bot, bot')
        /\ bot'.status # "absent" => cash' = cash /\ orders' = orders
    BY <1>3, OthersTolerated
  <2>2. CASE bot'.status # "absent"
    BY <2>1, <2>2, ToleratedExplained DEF LedgerInv
  <2>3. CASE bot'.status = "absent"
    BY <2>3 DEF Explained
  <2> QED
    BY <2>2, <2>3
<1> QED
  BY <1>1, <1>2, <1>3

\* It holds in every reachable state.
LEMMA LedgerInvariant == Spec => []LedgerInv
  BY InitExplained, StepExplained, LedgerTypes, PTL DEF Spec

\* The cash in the account is what the filled orders left of the capital, and the
\* position of a simulated bot is what they bought and did not sell, whatever
\* rejections, failures, stops and promotions come between, for any prices,
\* rates and number of orders.
THEOREM LedgerIsExplained == Spec => []LedgerExplained
<1>1. LedgerInv => LedgerExplained
  BY DEF LedgerInv, Explained, LedgerExplained, Present, Balance, Holding
<1> QED
  BY <1>1, LedgerInvariant, PTL

\* While nothing is held, the realized P&L that the performance route computes for
\* each day adds up to what the account gained since it was opened, and every two
\* fills are one round trip.
THEOREM PnlIsTheCashChange == Spec => []PnlIsCashChange
<1>1. TypeOK /\ LedgerInv => PnlIsCashChange
  <2> SUFFICES ASSUME TypeOK, Explained(bot, cash, orders), bot.status # "absent",
                      Books(orders)[Len(orders)].held = 0
               PROVE  /\ PnlUpTo(orders)[LastDay] = cash - Capital
                      /\ 2 * TradeCount(orders) = Books(orders)[Len(orders)].fills
    BY DEF LedgerInv, PnlIsCashChange, Present, Holding
  <2>1. cash = Books(orders)[Len(orders)].cash /\ Squared(orders)
    BY DEF Explained
  <2>2. orders \in Seq(Order) /\ cash \in Int /\ Capital \in Int
    BY LedgerAssumption DEF TypeOK
  <2>3. PairUp(orders, 0)[Len(orders)].trips \in Nat
    BY <2>2, LastTypes DEF Walk
  <2> QED
    BY <2>1, <2>2, <2>3 DEF Squared, TradeCount
<1> QED
  BY <1>1, LedgerTypes, LedgerInvariant, PTL

-----------------------------------------------------------------------------
(* What a snapshot shows *)

\* The books had the quantity q at some time, and the cash c no later.
Seen(s, c, q) ==
    \E j \in 0..Len(s) :
        /\ q = Books(s)[j].held
        /\ \E i \in 0..j : c = Books(s)[i].cash

\* Every snapshot is made of such a pair, and so is what a tick has read so far.
Witnessed(b, s, t, recorded) ==
    b.status # "absent" /\ b.mode = "SIMULATION" =>
        /\ t.pc = "position" => \E i \in 0..Len(s) : t.cash = Books(s)[i].cash
        /\ t.pc = "record" => Seen(s, t.cash, t.qty)
        /\ \A k \in Intervals :
              recorded[k] # NoSnapshot => Seen(s, recorded[k].cash, recorded[k].qty)
TickInv == Witnessed(bot, orders, tick, snaps)

\* What the books once had, they have had after another order.
LEMMA SeenGrows ==
    ASSUME NEW s \in Seq(Order), NEW o \in Order, NEW c, NEW q, Seen(s, c, q)
    PROVE  Seen(Append(s, o), c, q)
<1> PICK n \in Nat : n = Len(s)
  OBVIOUS
<1>1. Len(Append(s, o)) = n + 1
  OBVIOUS
<1>2. \A i \in 0..n : Books(Append(s, o))[i] = Books(s)[i]
  BY BooksGrow
<1>3. PICK j \in 0..n : /\ q = Books(s)[j].held
                        /\ \E i \in 0..j : c = Books(s)[i].cash
  BY DEF Seen
<1>4. PICK i \in 0..j : c = Books(s)[i].cash
  BY <1>3
<1>5. i \in 0..n /\ j \in 0..(n + 1)
  OBVIOUS
<1>6. q = Books(Append(s, o))[j].held /\ c = Books(Append(s, o))[i].cash
  BY <1>2, <1>3, <1>4, <1>5
<1> QED
  BY <1>1, <1>5, <1>6 DEF Seen

\* An order that overtakes a tick takes nothing away from it.
LEMMA WitnessedGrows ==
    ASSUME NEW b, NEW d, NEW s \in Seq(Order), NEW o \in Order, NEW t, NEW recorded,
           Witnessed(b, s, t, recorded), b.status # "absent", b.mode = "SIMULATION"
    PROVE  Witnessed(d, Append(s, o), t, recorded)
<1>1. ASSUME t.pc = "position"
      PROVE  \E i \in 0..Len(Append(s, o)) : t.cash = Books(Append(s, o))[i].cash
  <2>1. PICK i \in 0..Len(s) : t.cash = Books(s)[i].cash
    BY <1>1 DEF Witnessed
  <2>2. Books(Append(s, o))[i] = Books(s)[i]
    BY BooksGrow
  <2>3. i \in 0..Len(Append(s, o))
    OBVIOUS
  <2> QED
    BY <2>1, <2>2, <2>3
<1>2. ASSUME t.pc = "record"
      PROVE  Seen(Append(s, o), t.cash, t.qty)
  BY <1>2, SeenGrows DEF Witnessed
<1>3. ASSUME NEW k \in Intervals, recorded[k] # NoSnapshot
      PROVE  Seen(Append(s, o), recorded[k].cash, recorded[k].qty)
  BY <1>3, SeenGrows DEF Witnessed
<1> QED
  BY <1>1, <1>2, <1>3 DEF Witnessed

\* Each statement of a tick reads what the books have at that time.
LEMMA TickWitnessed ==
    ASSUME TypeOK, LedgerInv, TickInv, Scheduler \/ Restart
    PROVE  Witnessed(bot, orders, tick', snaps')
<1> SUFFICES ASSUME bot.status # "absent", bot.mode = "SIMULATION"
             PROVE  Witnessed(bot, orders, tick', snaps')
  BY DEF Witnessed
<1> PICK s \in Seq(Order) : s = orders
  BY DEF TypeOK
<1> PICK n \in Nat : n = Len(s)
  OBVIOUS
<1> PICK t \in Tick : t = tick
  BY DEF TypeOK
<1>1. cash = Books(s)[n].cash /\ bot.current = Books(s)[n].held
  BY DEF LedgerInv, Explained
<1>2. /\ t.pc = "position" => \E i \in 0..n : t.cash = Books(s)[i].cash
      /\ t.pc = "record" => Seen(s, t.cash, t.qty)
      /\ \A k \in Intervals :
            snaps[k] # NoSnapshot => Seen(s, snaps[k].cash, snaps[k].qty)
  BY DEF TickInv, Witnessed
<1>3. Ended.pc = "idle" /\ Started.pc = "idle"
  BY DEF Ended, Started
<1>4. ASSUME NEW u, snaps' = snaps, tick' = u, u.pc \notin {"position", "record"}
      PROVE  Witnessed(bot, orders, tick', snaps')
  BY <1>2, <1>4 DEF Witnessed
<1>5. CASE StartTick
  <2>1. [t EXCEPT !.pc = "account"].pc = "account"
    BY DEF Tick
  <2> QED
    BY <1>4, <1>5, <2>1 DEF StartTick, Step
<1>6. CASE Skip \/ Restart
  BY <1>3, <1>4, <1>6 DEF Skip, Restart, Step
<1>7. CASE ReadAccount
  <2> PICK u : u = [t EXCEPT !.pc = "position", !.cash = cash]
    OBVIOUS
  <2>1. u.pc = "position" /\ u.cash = Books(s)[n].cash
    BY <1>1 DEF Tick
  <2>2. tick' = u /\ snaps' = snaps
    BY <1>7 DEF ReadAccount, Step
  <2>3. n \in 0..n
    OBVIOUS
  <2> QED
    BY <1>2, <2>1, <2>2, <2>3 DEF Witnessed
<1>8. CASE ReadPosition
  <2> PICK u : u = [t EXCEPT !.pc = "record", !.qty = bot.current]
    OBVIOUS
  <2>1. u.pc = "record" /\ u.cash = t.cash /\ u.qty = Books(s)[n].held
    BY <1>1 DEF Tick
  <2>2. tick' = u /\ snaps' = snaps /\ t.pc = "position"
    BY <1>8 DEF ReadPosition, Step
  <2>3. n \in 0..n
    OBVIOUS
  <2>4. Seen(s, u.cash, u.qty)
    BY <1>2, <2>1, <2>2, <2>3 DEF Seen
  <2> QED
    BY <1>2, <2>1, <2>2, <2>4 DEF Witnessed
<1>9. CASE Record
  <2>1. tick' = Ended /\ t.pc = "record"
    BY <1>9 DEF Record
  <2>2. ASSUME NEW k \in Intervals, snaps'[k] # NoSnapshot
        PROVE  Seen(s, snaps'[k].cash, snaps'[k].qty)
    <3>1. CASE snaps'[k] = snaps[k]
      BY <1>2, <2>2, <3>1
    <3>2. CASE snaps'[k] # snaps[k]
      <4>1. snaps'[k] = [cash |-> t.cash, qty |-> t.qty]
        BY <1>9, <3>2 DEF Record, TypeOK
      <4> QED
        BY <1>2, <2>1, <4>1
    <3> QED
      BY <3>1, <3>2
  <2> QED
    BY <1>3, <2>1, <2>2 DEF Witnessed
<1> QED
  BY <1>5, <1>6, <1>7, <1>8, <1>9 DEF Scheduler

\* TickInv is inductive, given LedgerInv.
LEMMA StepWitnessed == TypeOK /\ LedgerInv /\ TickInv /\ [Next]_vars => TickInv'
<1> SUFFICES ASSUME TypeOK, LedgerInv, TickInv, [Next]_vars
             PROVE  Witnessed(bot', orders', tick', snaps')
  BY DEF TickInv
<1>1. ASSUME NEW side \in OrderSide,
             (\E p \in Prices : Fill(side, p)) \/ Reject(side) \/ Fail(side)
      PROVE  Witnessed(bot', orders', tick', snaps')
  <2>1. bot.status # "absent" /\ bot.mode = "SIMULATION"
    BY <1>1 DEF Fill, Reject, Fail, MayTrade
  <2>2. tick' = tick /\ snaps' = snaps
    BY <1>1 DEF Fill, Reject, Fail
  <2>3. PICK o : orders' = Append(orders, o)
    BY <1>1 DEF Fill, Reject, Fail
  <2>4. orders \in Seq(Order) /\ orders' \in Seq(Order)
    BY StepTypes DEF TypeOK
  <2>5. o \in Order
    <3> PICK s \in Seq(Order) : s = orders
      BY <2>4
    <3> PICK t \in Seq(Order) : t = orders'
      BY <2>4
    <3>1. t = Append(s, o)
      BY <2>3
    <3>2. Len(s) + 1 \in 1..Len(t) /\ t[Len(s) + 1] = o
      BY <3>1
    <3> QED
      BY <3>2
  <2> QED
    BY <2>1, <2>2, <2>3, <2>4, <2>5, WitnessedGrows DEF TickInv
<1>2. CASE Scheduler \/ Restart
  <2>1. bot' = bot /\ orders' = orders
    BY <1>2 DEF Scheduler, StartTick, ReadAccount, ReadPosition, Skip, Record,
                Restart, Step
  <2> QED
    BY <1>2, <2>1, TickWitnessed
<1>3. CASE /\ \A side \in OrderSide : /\ \A p \in Prices : ~Fill(side, p)
                                      /\ ~Reject(side) /\ ~Fail(side)
           /\ ~(Scheduler \/ Restart)
  <2>1. /\ Tolerated(bot, bot')
        /\ bot'.status # "absent" => cash' = cash /\ orders' = orders
    BY <1>3, OthersTolerated
  <2>2. CASE bot'.status # "absent"
    <3>1. orders' = orders /\ tick' = tick /\ snaps' = snaps
      <4>1. CASE DeleteBot
        BY <2>2, <4>1 DEF DeleteBot, TypeOK, Bot
      <4>2. CASE ~DeleteBot
        BY <1>3, <4>2 DEF Next, Trade, Raise, TradeLive, UpdateBot, StopBot,
                          ActivateLive, Change, Advance, vars
      <4> QED
        BY <4>1, <4>2
    <3> QED
      BY <2>1, <2>2, <3>1 DEF TickInv, Witnessed, Tolerated
  <2>3. CASE bot'.status = "absent"
    BY <2>3 DEF Witnessed
  <2> QED
    BY <2>2, <2>3
<1> QED
  BY <1>1, <1>2, <1>3

\* A snapshot's quantity is one the ledger had, and its cash one it had no later,
\* however many fills commit between the two statements of the tick.
THEOREM SnapshotsAreWithinATick == Spec => []SnapshotWithinTick
<1>1. Init => TickInv
  BY DEF Init, TickInv, Witnessed, Started
<1>2. TickInv => SnapshotWithinTick
  BY DEF TickInv, Witnessed, Seen, SnapshotWithinTick, Present, Holding, Balance
<1> QED
  BY <1>1, <1>2, StepWitnessed, LedgerTypes, LedgerInvariant, PTL DEF Spec

=============================================================================
