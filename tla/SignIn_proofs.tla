---------------------------- MODULE SignIn_proofs ----------------------------
(***************************************************************************)
(* Signing in, for any number of requests, states, accounts and users: a    *)
(* login state pays for one session, the session is its user's, and few     *)
(* states are good at once.                                                *)
(*                                                                         *)
(* The argument: a state that was handed out is in one place at most, the   *)
(* store, a callback or a session (Once); what a callback has learnt so far *)
(* about account and user stays true while it waits (Learnt), for links are *)
(* never changed and "seen" only grows.                                    *)
(***************************************************************************)
EXTENDS SignIn, FiniteSetTheorems, WellFoundedInduction, TLAPS

----------------------------------------------------------------------------
(* The limiter, for any callers, limit, window and hold-up.  A hit is popped *)
(* only when it is a window old (PoppedOld), at most Max hits are left after *)
(* any step (FewHits), so when a hit is appended the one Max before it has   *)
(* been popped, hence is a window old.                                      *)

\* Callers hold a stamp for at most MaxDelay.
StampsFresh ==
    \A c \in Requests :
        stamp[c] # Limiter!NotCalling => stamp[c] <= now /\ now <= stamp[c] + MaxDelay

\* A hit is appended at most MaxDelay after its stamp.
HitsFresh ==
    \A i \in 1..Len(log) :
        /\ log[i].stamp <= log[i].at
        /\ log[i].at <= log[i].stamp + MaxDelay
        /\ log[i].at <= now

PoppedOld == \A i \in 1..(first - 1) : log[i].stamp + Window <= now

\* Hits are appended at the time of the clock.
InOrder == \A i, j \in 1..Len(log) : i <= j => log[i].at <= log[j].at

\* A hit is appended a window after the stamp of the one Max before it.
WindowLater ==
    \A i \in 1..Len(log) :
        i + Max <= Len(log) => log[i].stamp + Window <= log[i + Max].at

\* What the last refusal was about: some hit k that was at the head then, and
\* with which the deque was full.
ToldOfHead ==
    told.seen = Len(log) =>
        \E k \in 1..Len(log) :
            /\ k <= first
            /\ told.until = log[k].stamp + Window
            /\ Limiter!Left(k) <= Max

LimiterInv ==
    Limiter!TypeOK /\ StampsFresh /\ HitsFresh /\ PoppedOld /\ Limiter!FewHits
    /\ InOrder /\ WindowLater /\ ToldOfHead

----------------------------------------------------------------------------
\* The invariant holds when the process starts.
LEMMA LimiterStarts == ASSUME Limiter!Sane PROVE Limiter!Init => LimiterInv
  BY DEF Limiter!Init, LimiterInv, Limiter!TypeOK, StampsFresh, HitsFresh,
         PoppedOld, Limiter!FewHits, InOrder, WindowLater, ToldOfHead,
         Limiter!Left, Limiter!Sane, Limiter!Hit, Limiter!NotCalling,
         Limiter!NeverTold

\* The times of a hit are numbers.
LEMMA HitValues ==
    ASSUME Limiter!TypeOK, NEW i \in 1..Len(log)
    PROVE  log[i].stamp \in Int /\ log[i].at \in Int
  <1>1. log[i] \in Limiter!Hit
    BY DEF Limiter!TypeOK
  <1> QED BY <1>1 DEF Limiter!Hit

\* A hit that comes a window after the stamp of an earlier one comes that much,
\* less the earlier caller's hold-up, after its entry.
LEMMA Apart ==
    ASSUME NEW s \in Int, NEW a \in Int, NEW n \in Int,
           NEW w \in Int, NEW d \in Int,
           s + w <= n, a <= s + d
    PROVE  n - a >= w - d
  OBVIOUS

\* The same, n windows less a hold-up further on: d is what n of them make.
LEMMA FurtherApart ==
    ASSUME NEW s \in Int, NEW b \in Int, NEW c \in Int, NEW n \in Int,
           NEW w \in Int, NEW e \in Int, NEW d \in Int,
           s + w + d <= b, b <= c + e, c + w <= n
    PROVE  s + w + (d + (w - e)) <= n
  OBVIOUS

LEMMA NoSooner ==
    ASSUME NEW s \in Int, NEW w \in Int, NEW d \in Int, NEW b \in Int,
           NEW e \in Int, s + w + d <= b, b <= e
    PROVE  s + w + d <= e
  OBVIOUS

\* Types, when one entry of the deque's history and its head are all that changes.
LEMMA LimiterTypeKept ==
    ASSUME Limiter!TypeOK, NEW c \in Requests,
           stamp' = [stamp EXCEPT ![c] = Limiter!NotCalling], now' = now,
           log' \in Seq(Limiter!Hit), first' \in 1..(Len(log') + 1),
           told'.until \in 0..(MaxTime + Window), told'.seen \in -1..Len(log')
    PROVE  Limiter!TypeOK'
  <1>1. stamp' \in [Requests -> 0..MaxTime \cup {Limiter!NotCalling}]
    BY DEF Limiter!TypeOK
  <1> QED
    BY <1>1 DEF Limiter!TypeOK

\* Popping leaves only aged hits behind and moves first forward.
LEMMA Popping ==
    ASSUME Limiter!Sane, LimiterInv, NEW t \in 0..now,
           NEW i \in first..(Len(log) + 1), Limiter!PopsTo(i, t)
    PROVE  /\ i \in 1..(Len(log) + 1)
           /\ first <= i
           /\ \A j \in 1..(i - 1) : log[j].stamp + Window <= now
           /\ Limiter!Left(i) <= Max
  <1>0. /\ first \in 1..(Len(log) + 1)
        /\ Len(log) \in Nat
        /\ \A j \in 1..Len(log) : log[j] \in Limiter!Hit
        /\ now \in Nat /\ Window \in Nat /\ Max \in Nat
    BY DEF LimiterInv, Limiter!TypeOK, Limiter!Sane
  <1>1. i \in 1..(Len(log) + 1) /\ first <= i
    BY <1>0
  <1>2. ASSUME NEW j \in 1..(i - 1) PROVE log[j].stamp + Window <= now
    <2>1. j \in 1..Len(log) /\ log[j].stamp \in Int
      BY <1>0, <1>1 DEF Limiter!Hit
    <2>2. CASE j < first
      BY <2>1, <2>2, <1>0 DEF LimiterInv, PoppedOld
    <2>3. CASE j >= first
      <3>1. log[j].stamp <= t - Window
        BY <2>1, <2>3, <1>0, <1>1 DEF Limiter!PopsTo, Limiter!Aged
      <3> QED BY <3>1, <2>1, <1>0
    <2> QED BY <2>2, <2>3, <1>0
  <1>3. Limiter!Left(i) <= Max
    BY <1>0, <1>1 DEF LimiterInv, Limiter!FewHits, Limiter!Left
  <1> QED BY <1>1, <1>2, <1>3

\* Letting a request in keeps the invariant; WindowLater is where it matters.
LEMMA AdmitKeeps ==
    ASSUME Limiter!Sane, LimiterInv, NEW c \in Requests, Limiter!Admit(c)
    PROVE  LimiterInv'
  <1> USE DEF Limiter!Sane
  <1>0. /\ first \in 1..(Len(log) + 1)
        /\ log \in Seq(Limiter!Hit) /\ Len(log) \in Nat
        /\ now \in 0..MaxTime
        /\ stamp[c] \in 0..now /\ now <= stamp[c] + MaxDelay
    BY DEF LimiterInv, Limiter!TypeOK, StampsFresh, Limiter!Admit, Limiter!NotCalling
  <1> DEFINE h == [stamp |-> stamp[c], at |-> now]
  <1>h. h \in Limiter!Hit
    BY <1>0 DEF Limiter!Hit
  <1>1. PICK i \in first..(Len(log) + 1) :
            Limiter!PopsTo(i, stamp[c]) /\ Limiter!Left(i) < Max /\ first' = i
    BY DEF Limiter!Admit
  <1>2. /\ i \in 1..(Len(log) + 1)
        /\ \A j \in 1..(i - 1) : log[j].stamp + Window <= now
    BY <1>0, <1>1, Popping
  <1>3. /\ log' = Append(log, h)
        /\ log' \in Seq(Limiter!Hit)
        /\ Len(log') = Len(log) + 1
        /\ \A j \in 1..Len(log) : log'[j] = log[j]
        /\ log'[Len(log) + 1] = h
        /\ now' = now /\ told' = told
        /\ stamp' = [stamp EXCEPT ![c] = Limiter!NotCalling]
    BY <1>0, <1>h DEF Limiter!Admit
  <1>4. Limiter!Left(i) = Len(log) + 1 - i
    BY DEF Limiter!Left
  <1>5. Limiter!TypeOK'
    <2>1. first' \in 1..(Len(log') + 1)
      BY <1>0, <1>1, <1>2, <1>3
    <2>2. told.until \in 0..(MaxTime + Window) /\ told.seen \in -1..Len(log)
      BY DEF LimiterInv, Limiter!TypeOK
    <2>3. told'.seen \in -1..Len(log')
      BY <2>2, <1>0, <1>3
    <2> QED
      BY <1>3, <2>1, <2>2, <2>3, LimiterTypeKept DEF LimiterInv
  <1>6. StampsFresh'
    BY <1>3 DEF LimiterInv, Limiter!TypeOK, StampsFresh, Limiter!NotCalling
  <1>7. HitsFresh'
    <2> SUFFICES ASSUME NEW j \in 1..(Len(log) + 1)
                 PROVE  /\ log'[j].stamp <= log'[j].at
                        /\ log'[j].at <= log'[j].stamp + MaxDelay
                        /\ log'[j].at <= now
      BY <1>3 DEF HitsFresh
    <2>1. CASE j \in 1..Len(log)
      BY <2>1, <1>3 DEF LimiterInv, HitsFresh
    <2>2. CASE j = Len(log) + 1
      BY <2>2, <1>3, <1>0
    <2> QED BY <2>1, <2>2, <1>0
  <1>8. PoppedOld'
    BY <1>0, <1>1, <1>2, <1>3 DEF PoppedOld
  <1>9. Limiter!FewHits'
    BY <1>0, <1>1, <1>2, <1>3, <1>4 DEF Limiter!FewHits, Limiter!Left
  <1>10. WindowLater'
    <2> SUFFICES ASSUME NEW j \in 1..(Len(log) + 1), j + Max <= Len(log) + 1
                 PROVE  log'[j].stamp + Window <= log'[j + Max].at
      BY <1>3 DEF WindowLater
    <2>1. CASE j + Max <= Len(log)
      <3>1. j \in 1..Len(log) /\ j + Max \in 1..Len(log)
        BY <2>1, <1>0
      <3> QED BY <3>1, <2>1, <1>3 DEF LimiterInv, WindowLater
    <2>2. CASE j + Max = Len(log) + 1
      <3>1. j \in 1..(i - 1) /\ j \in 1..Len(log)
        BY <2>2, <1>0, <1>1, <1>2, <1>4
      <3>2. log[j].stamp + Window <= now
        BY <3>1, <1>2
      <3>3. log'[j] = log[j] /\ log'[j + Max].at = now
        BY <3>1, <2>2, <1>3
      <3> QED BY <3>2, <3>3
    <2> QED BY <2>1, <2>2, <1>0
  <1>12. InOrder'
    <2> SUFFICES ASSUME NEW j \in 1..(Len(log) + 1), NEW k \in 1..(Len(log) + 1), j <= k
                 PROVE  log'[j].at <= log'[k].at
      BY <1>3 DEF InOrder
    <2>1. CASE k \in 1..Len(log)
      <3>1. j \in 1..Len(log)
        BY <2>1
      <3> QED BY <2>1, <3>1, <1>3 DEF LimiterInv, InOrder
    <2>2. CASE k = Len(log) + 1
      <3>1. log'[k].at = now /\ log'[j].at <= now
        BY <2>2, <1>3, <1>7 DEF HitsFresh
      <3> QED BY <3>1
    <2> QED BY <2>1, <2>2, <1>0
  <1>11. ToldOfHead'
    BY <1>0, <1>3 DEF LimiterInv, Limiter!TypeOK, ToldOfHead
  <1> QED BY <1>5, <1>6, <1>7, <1>8, <1>9, <1>10, <1>11, <1>12 DEF LimiterInv

\* Refusing one does.
LEMMA RefuseKeeps ==
    ASSUME Limiter!Sane, LimiterInv, NEW c \in Requests, Limiter!Refuse(c)
    PROVE  LimiterInv'
  <1> USE DEF Limiter!Sane
  <1>0. /\ first \in 1..(Len(log) + 1)
        /\ log \in Seq(Limiter!Hit) /\ Len(log) \in Nat
        /\ now \in 0..MaxTime
        /\ stamp[c] \in 0..now
    BY DEF LimiterInv, Limiter!TypeOK, StampsFresh, Limiter!Refuse, Limiter!NotCalling
  <1>1. PICK i \in first..(Len(log) + 1) :
            /\ Limiter!PopsTo(i, stamp[c]) /\ Limiter!Left(i) >= Max /\ first' = i
            /\ told' = [until |-> log[i].stamp + Window, seen |-> Len(log)]
    BY DEF Limiter!Refuse
  <1>2. /\ i \in 1..(Len(log) + 1)
        /\ \A j \in 1..(i - 1) : log[j].stamp + Window <= now
        /\ Limiter!Left(i) <= Max
    BY <1>0, <1>1, Popping
  <1>3. /\ log' = log /\ now' = now
        /\ stamp' = [stamp EXCEPT ![c] = Limiter!NotCalling]
    BY DEF Limiter!Refuse
  <1>4. i \in 1..Len(log) /\ log[i].stamp \in 0..MaxTime
    <2>1. i \in 1..Len(log)
      BY <1>0, <1>1, <1>2 DEF Limiter!Left
    <2>2. log[i] \in Limiter!Hit
      BY <2>1, <1>0
    <2> QED BY <2>1, <2>2 DEF Limiter!Hit
  <1>5. Limiter!TypeOK'
    <2>1. first' \in 1..(Len(log') + 1)
      BY <1>0, <1>1, <1>2, <1>3
    <2>2. told'.until = log[i].stamp + Window /\ told'.seen = Len(log)
      BY <1>1
    <2>3. told'.until \in 0..(MaxTime + Window)
      BY <2>2, <1>4
    <2>4. told'.seen \in -1..Len(log')
      BY <2>2, <1>0, <1>3
    <2> QED
      BY <1>0, <1>3, <2>1, <2>3, <2>4, LimiterTypeKept DEF LimiterInv
  <1>6. StampsFresh'
    BY <1>3 DEF LimiterInv, Limiter!TypeOK, StampsFresh, Limiter!NotCalling
  <1>7. PoppedOld'
    BY <1>1, <1>2, <1>3 DEF PoppedOld
  <1>8. Limiter!FewHits' /\ HitsFresh' /\ InOrder' /\ WindowLater'
    BY <1>1, <1>2, <1>3
    DEF LimiterInv, Limiter!FewHits, Limiter!Left, HitsFresh, InOrder, WindowLater
  <1>9. ToldOfHead'
    BY <1>1, <1>2, <1>3, <1>4 DEF ToldOfHead, Limiter!Left
  <1> QED BY <1>5, <1>6, <1>7, <1>8, <1>9 DEF LimiterInv

\* Every step does.
LEMMA LimiterStepKeeps ==
    ASSUME Limiter!Sane, LimiterInv, [Limiter!Next]_Limiter!vars
    PROVE  LimiterInv'
  <1> USE DEF Limiter!Sane
  <1>1. ASSUME NEW c \in Requests, Limiter!ReadClock(c) PROVE LimiterInv'
    <2>1. now' = now /\ log' = log /\ first' = first /\ told' = told
          /\ stamp' = [stamp EXCEPT ![c] = now]
      BY <1>1 DEF Limiter!ReadClock
    <2>2. Limiter!TypeOK'
      BY <2>1 DEF LimiterInv, Limiter!TypeOK
    <2>3. StampsFresh'
      BY <2>1 DEF LimiterInv, Limiter!TypeOK, StampsFresh
    <2>4. /\ HitsFresh' /\ PoppedOld' /\ Limiter!FewHits'
          /\ InOrder' /\ WindowLater' /\ ToldOfHead'
      BY <2>1 DEF LimiterInv, HitsFresh, PoppedOld, Limiter!FewHits, InOrder, WindowLater,
                  ToldOfHead, Limiter!Left
    <2> QED BY <2>2, <2>3, <2>4 DEF LimiterInv
  <1>2. CASE Limiter!Tick
    <2>1. Limiter!TypeOK' /\ StampsFresh'
      BY <1>2 DEF Limiter!Tick, LimiterInv, Limiter!TypeOK, StampsFresh,
                  Limiter!NotCalling
    <2>2. ASSUME NEW i \in 1..Len(log)
          PROVE  log[i].stamp \in Int /\ log[i].at \in Int
      BY HitValues DEF LimiterInv
    <2>3. HitsFresh'
      BY <1>2, <2>2 DEF Limiter!Tick, LimiterInv, Limiter!TypeOK, HitsFresh
    <2>4. PoppedOld'
      <3> SUFFICES ASSUME NEW i \in 1..(first - 1)
                   PROVE  log[i].stamp + Window <= now + 1
        BY <1>2 DEF Limiter!Tick, PoppedOld
      <3>1. log[i].stamp + Window <= now
        BY DEF LimiterInv, PoppedOld
      <3>2. i \in 1..Len(log) /\ now \in Int
        BY DEF LimiterInv, Limiter!TypeOK
      <3> QED
        BY <2>2, <3>1, <3>2
    <2>5. Limiter!FewHits' /\ InOrder' /\ WindowLater' /\ ToldOfHead'
      BY <1>2 DEF Limiter!Tick, LimiterInv, Limiter!FewHits, InOrder,
                  WindowLater, ToldOfHead, Limiter!Left
    <2> QED BY <2>1, <2>3, <2>4, <2>5 DEF LimiterInv
  <1>3. CASE Limiter!Restart
    BY <1>3 DEF Limiter!Restart, LimiterInv, Limiter!TypeOK, StampsFresh,
                HitsFresh, PoppedOld, Limiter!FewHits, InOrder, WindowLater,
                ToldOfHead, Limiter!Left, Limiter!NotCalling,
                Limiter!NeverTold, Limiter!Hit
  <1>4. CASE UNCHANGED Limiter!vars
    BY <1>4 DEF Limiter!vars, LimiterInv, Limiter!TypeOK, StampsFresh,
                HitsFresh, PoppedOld, Limiter!FewHits,
                InOrder, WindowLater, ToldOfHead, Limiter!Left
  <1> QED
    BY <1>1, <1>2, <1>3, <1>4, AdmitKeeps, RefuseKeeps DEF Limiter!Next, Limiter!Check

\* The invariant holds in every reachable state.
LEMMA LimiterHolds == ASSUME Limiter!Sane PROVE Limiter!Spec => []LimiterInv
  <1>1. Limiter!Init => LimiterInv
    BY LimiterStarts
  <1>2. LimiterInv /\ [Limiter!Next]_Limiter!vars => LimiterInv'
    BY LimiterStepKeeps
  <1> QED BY <1>1, <1>2, PTL DEF Limiter!Spec

----------------------------------------------------------------------------
\* What the invariant says of requests that are Max apart, and of the ones that
\* are a multiple of it.
LEMMA Spacing == ASSUME Limiter!Sane, LimiterInv PROVE Limiter!SpacedOut
  <1> SUFFICES ASSUME NEW i \in 1..Len(log), i + Max <= Len(log)
               PROVE  log[i + Max].at - log[i].at >= Window - MaxDelay
    BY DEF Limiter!SpacedOut
  <1>1. i + Max \in 1..Len(log) /\ Window \in Int /\ MaxDelay \in Int
    BY DEF Limiter!Sane
  <1>2. /\ log[i].stamp \in Int /\ log[i].at \in Int /\ log[i + Max].at \in Int
    BY <1>1, HitValues DEF LimiterInv
  <1>3. log[i].stamp + Window <= log[i + Max].at /\ log[i].at <= log[i].stamp + MaxDelay
    BY DEF LimiterInv, WindowLater, HitsFresh
  <1> QED BY <1>1, <1>2, <1>3, Apart

\* The head of the deque is not the hit a refusal was about any more once that
\* one has aged, and there was room behind it.
LEMMA HonestAnswer == ASSUME Limiter!Sane, LimiterInv PROVE Limiter!RetryAfterHonest
  <1> SUFFICES ASSUME told.seen = Len(log), now >= told.until,
                      NEW i \in first..(Len(log) + 1), Limiter!PopsTo(i, now)
               PROVE  Limiter!Left(i) < Max
    BY DEF Limiter!RetryAfterHonest, Limiter!Room
  <1>0. /\ first \in 1..(Len(log) + 1) /\ Len(log) \in Nat
        /\ now \in Nat /\ Window \in Nat /\ Max \in Nat
        /\ \A j \in 1..Len(log) : log[j].stamp \in Int
    BY HitValues DEF LimiterInv, Limiter!TypeOK, Limiter!Sane
  <1>1. PICK k \in 1..Len(log) :
            k <= first /\ told.until = log[k].stamp + Window /\ Limiter!Left(k) <= Max
    BY DEF LimiterInv, ToldOfHead
  <1>2. k < i
    <2>1. CASE first > k
      BY <2>1, <1>0
    <2>2. CASE first = k
      <3>1. Limiter!Aged(k, now)
        BY <1>0, <1>1 DEF Limiter!Aged
      <3> QED BY <3>1, <2>2, <1>0 DEF Limiter!PopsTo
    <2> QED BY <2>1, <2>2, <1>0, <1>1
  <1> QED BY <1>0, <1>1, <1>2 DEF Limiter!Left

\* A nonempty set of natural numbers has a least element.
LEMMA LeastNat ==
    ASSUME NEW T \in SUBSET Nat, T # {}
    PROVE  \E x \in T : \A y \in T : x <= y
  <1> DEFINE U == {0..x : x \in T}
  <1>1. U \subseteq FiniteSubsetsOf(Nat) /\ U # {}
    <2>1. ASSUME NEW x \in T
          PROVE  0..x \in FiniteSubsetsOf(Nat)
      <3>1. IsFiniteSet(0..x)
        BY FS_Interval
      <3> QED
        BY <3>1 DEF FiniteSubsetsOf
    <2> QED
      BY <2>1
  <1>2. PICK m \in U : \A n \in U : <<n, m>> \notin StrictSubsetOrdering(Nat)
    <2>1. IsWellFoundedOn(StrictSubsetOrdering(Nat), FiniteSubsetsOf(Nat))
      BY FS_StrictSubsetOrderingWellFounded
    <2> HIDE DEF U
    <2> QED
      BY <1>1, <2>1, WFMin
  <1>3. PICK x \in T : m = 0..x
    BY <1>2
  <1>4. ASSUME NEW y \in T, y < x
        PROVE  FALSE
    <2>1. 0..y \in U
      OBVIOUS
    <2>2. 0..y \subseteq 0..x /\ 0..y # 0..x
      <3>1. x \in 0..x /\ x \notin 0..y
        BY <1>4
      <3> QED
        BY <1>4, <3>1
    <2>3. 0..y \in SUBSET Nat /\ 0..x \in SUBSET Nat
      OBVIOUS
    <2>4. <<0..y, 0..x>> \in StrictSubsetOrdering(Nat)
      BY <2>2, <2>3 DEF StrictSubsetOrdering
    <2> QED
      BY <1>2, <1>3, <2>1, <2>4
  <1> QED
    BY <1>4

\* Induction over a set: it holds every number if it holds 0 and successors.
LEMMA Induction ==
    ASSUME NEW S, 0 \in S, \A n \in Nat : n \in S => n + 1 \in S
    PROVE  \A n \in Nat : n \in S
  <1> SUFFICES ASSUME Nat \ S # {}
               PROVE  FALSE
    OBVIOUS
  <1>1. PICK x \in Nat \ S : \A y \in Nat \ S : x <= y
    BY LeastNat
  <1>2. x # 0 /\ x - 1 \in Nat
    OBVIOUS
  <1>3. x - 1 \in S
    BY <1>1, <1>2
  <1>4. (x - 1) + 1 = x
    OBVIOUS
  <1> QED
    BY <1>2, <1>3, <1>4

\* The request that comes Max * (j + 1) later comes a window later, and j times
\* a window less the delay of a caller.
LEMMA Chain ==
    ASSUME Limiter!Sane, LimiterInv, NEW i \in 1..Len(log), NEW j \in Nat,
           i + Max * (j + 1) <= Len(log)
    PROVE  log[i].stamp + Window + j * (Window - MaxDelay) <= log[i + Max * (j + 1)].at
  <1> DEFINE Far(n) == i + Max * (n + 1) <= Len(log) =>
                log[i].stamp + Window + n * (Window - MaxDelay)
                    <= log[i + Max * (n + 1)].at
             S == {n \in Nat : Far(n)}
  <1>0. /\ Max \in Nat \ {0} /\ Window \in Int /\ MaxDelay \in Int /\ Len(log) \in Nat
        /\ log[i].stamp \in Int
    BY HitValues DEF Limiter!Sane, LimiterInv, Limiter!TypeOK
  <1>1. 0 \in S
    <2>1. Max * (0 + 1) = Max /\ 0 * (Window - MaxDelay) = 0
      BY <1>0
    <2>2. i + Max <= Len(log) => log[i].stamp + Window <= log[i + Max].at
      BY DEF LimiterInv, WindowLater
    <2>3. Far(0)
      BY <1>0, <2>1, <2>2
    <2> QED BY <2>3
  <1>2. ASSUME NEW n \in Nat, n \in S
        PROVE  n + 1 \in S
    <2> PICK k \in Int : k = i + Max * (n + 1)
      BY <1>0
    <2> PICK d \in Int : d = n * (Window - MaxDelay)
      BY <1>0
    <2>1. i + Max * ((n + 1) + 1) = k + Max
      BY <1>0
    <2>2. (n + 1) * (Window - MaxDelay) = d + (Window - MaxDelay)
      BY <1>0
    <2>3. Max * (n + 1) \in Nat
      BY <1>0
    <2>4. ASSUME k + Max <= Len(log)
          PROVE  log[i].stamp + Window + (d + (Window - MaxDelay)) <= log[k + Max].at
      <3>1. k \in 1..Len(log) /\ k + Max \in 1..Len(log)
        BY <1>0, <2>3, <2>4
      <3>2. log[k].stamp \in Int /\ log[k].at \in Int /\ log[k + Max].at \in Int
        BY <3>1, HitValues DEF LimiterInv
      <3>3. log[i].stamp + Window + d <= log[k].at
        BY <1>2, <3>1
      <3>4. /\ log[k].stamp + Window <= log[k + Max].at
            /\ log[k].at <= log[k].stamp + MaxDelay
        BY <2>4, <3>1 DEF LimiterInv, WindowLater, HitsFresh
      <3> QED BY <1>0, <3>2, <3>3, <3>4, FurtherApart
    <2>5. Far(n + 1)
      BY <2>1, <2>2, <2>4
    <2> QED BY <2>5
  <1> HIDE DEF S
  <1>3. j \in S
    BY <1>1, <1>2, Induction
  <1> QED BY <1>3 DEF S

\* So do all that come after it.
LEMMA FarApart ==
    ASSUME Limiter!Sane, LimiterInv,
           NEW i \in 1..Len(log), NEW k \in 1..Len(log), NEW j \in Nat,
           i + Max * (j + 1) <= k
    PROVE  log[i].stamp + Window + j * (Window - MaxDelay) <= log[k].at
  <1>0. /\ Max \in Nat \ {0} /\ Window \in Int /\ MaxDelay \in Int /\ Len(log) \in Nat
        /\ Max * (j + 1) \in Nat /\ j * (Window - MaxDelay) \in Int
    BY DEF Limiter!Sane, LimiterInv, Limiter!TypeOK
  <1> PICK m \in Int : m = i + Max * (j + 1)
    BY <1>0
  <1> PICK d \in Int : d = j * (Window - MaxDelay)
    BY <1>0
  <1>1. m \in 1..Len(log)
    BY <1>0
  <1>2. log[i].stamp + Window + d <= log[m].at
    BY <1>1, Chain
  <1>3. log[m].at <= log[k].at
    BY <1>1 DEF LimiterInv, InOrder
  <1>4. log[i].stamp \in Int /\ log[m].at \in Int /\ log[k].at \in Int
    BY <1>1, HitValues DEF LimiterInv
  <1>5. log[i].stamp + Window + d <= log[k].at
    <2>1. Window \in Int
      BY DEF Limiter!Sane
    <2> QED BY <2>1, <1>2, <1>3, <1>4, NoSooner
  <1> QED BY <1>5

----------------------------------------------------------------------------
\* The limiter's variables are well typed, whatever order callers come in.
THEOREM LimiterTyped == ASSUME Limiter!Sane PROVE Limiter!Spec => []Limiter!TypeOK
  <1>1. LimiterInv => Limiter!TypeOK
    BY DEF LimiterInv
  <1> QED BY <1>1, LimiterHolds, PTL

\* No window sees more than Max admitted requests, up to the delay of a caller.
THEOREM WindowsRespected == ASSUME Limiter!Sane PROVE Limiter!Spec => []Limiter!SpacedOut
  <1>1. LimiterInv => Limiter!SpacedOut
    BY Spacing
  <1> QED BY <1>1, LimiterHolds, PTL

\* A key never holds more than Max hits.
THEOREM MemoryBounded == ASSUME Limiter!Sane PROVE Limiter!Spec => []Limiter!FewHits
  <1>1. LimiterInv => Limiter!FewHits
    BY DEF LimiterInv
  <1> QED BY <1>1, LimiterHolds, PTL

\* Waiting as long as a refusal said is enough.
THEOREM WaitIsEnough ==
    ASSUME Limiter!Sane
    PROVE  Limiter!Spec => []Limiter!RetryAfterHonest
  <1>1. LimiterInv => Limiter!RetryAfterHonest
    BY HonestAnswer
  <1> QED BY <1>1, LimiterHolds, PTL

----------------------------------------------------------------------------
(* What signing in keeps *)

Redeeming == {"google", "resolve", "link", "session"}

\* What a callback knows at each point.
Learnt(x) ==
    /\ x.pc \in Redeeming =>
          x.state \in issued /\ x.age <= StateTTL /\ active \subseteq x.seen
    /\ x.pc \in {"resolve", "link", "session"} => x.sub \in Subjects
    /\ x.pc \in {"link", "session"} => x.user \in x.seen
    /\ x.pc = "session" => identity[x.sub] = x.user

\* A state in the store was handed out at most its lifetime ago.
StoreSound ==
    \A s \in States :
        pending[s] # Absent =>
            s \in issued /\ StateTTL <= pending[s] /\ pending[s] <= now + StateTTL

\* A state is in one place at most.
Once ==
    /\ \A r \in Requests :
          req[r].pc \in Redeeming => pending[req[r].state] = Absent
    /\ \A p, r \in Requests :
          p # r /\ req[p].pc \in Redeeming /\ req[r].pc \in Redeeming =>
              req[p].state # req[r].state
    /\ \A i \in DOMAIN sessions :
          /\ sessions[i].state \in issued /\ pending[sessions[i].state] = Absent
          /\ \A r \in Requests :
                req[r].pc \in Redeeming => req[r].state # sessions[i].state
    /\ OneSessionPerState

Earned(x) ==
    x.age <= StateTTL /\ identity[x.sub] = x.user /\ x.earned

SignInInv ==
    /\ LimiterInv /\ TypeOK
    /\ \A r \in Requests : Learnt(req[r])
    /\ StoreSound /\ Once
    /\ \A i \in DOMAIN sessions : Earned(sessions[i])

----------------------------------------------------------------------------
(* The limiter inside *)

\* Every step of signing in is one of the limiter, or leaves it alone.
LEMMA LimiterKept ==
    ASSUME SignInInv, [Next]_vars
    PROVE  LimiterInv' /\ Limiter!TypeOK'
<1>1. Limiter!Sane
  BY SignInAssumption
<1>2. [Limiter!Next]_Limiter!vars
  <2>1. ASSUME NEW r \in Requests, Login(r) \/ Admitted(r) \/ TooMany(r)
        PROVE  Limiter!Next
    BY <2>1 DEF Login, Admitted, TooMany, Limiter!Next, Limiter!Check
  <2>2. Tick \/ Restart => Limiter!Next
    BY DEF Tick, Restart, Limiter!Next
  <2>3. ASSUME NEW r \in Requests, CreateState(r) \/ RefuseReturn(r) \/ Callback(r)
        PROVE  UNCHANGED Limiter!vars
    BY <2>3 DEF CreateState, RefuseReturn, Callback, Redeem, RefuseState,
                Vouched, GiveUp, Resolve, FirstLogin, Link, CreateSession,
                limiterVars, Limiter!vars
  <2>4. Logout \/ SetStatus \/ UNCHANGED vars => UNCHANGED Limiter!vars
    BY DEF Logout, SetStatus, vars, limiterVars, Limiter!vars
  <2> QED
    BY <2>1, <2>2, <2>3, <2>4 DEF Next, Begin
<1>3. LimiterInv'
  BY <1>1, <1>2, LimiterStepKeeps DEF SignInInv
<1> QED
  BY <1>3 DEF LimiterInv

LEMMA LimiterTypes ==
    ASSUME SignInInv
    PROVE  /\ now \in 0..MaxTime /\ stamp \in [Requests -> 0..MaxTime \cup {-1}]
           /\ {MaxTime, StateTTL, SessionTTL} \subseteq Nat /\ None \notin Users
  BY SignInAssumption
  DEF SignInInv, TypeOK, Limiter!TypeOK, Limiter!NotCalling, Limiter!Sane

\* The clock does not go back.
LEMMA ClockForward == SignInInv /\ [Next]_vars => now' \in Int /\ now <= now'
<1> SUFFICES ASSUME SignInInv, [Next]_vars
             PROVE  now' \in Int /\ now <= now'
  OBVIOUS
<1>1. now \in Int
  BY LimiterTypes
<1>2. now' = now \/ Tick
  BY DEF Next, Begin, Login, Admitted, TooMany, CreateState, RefuseReturn,
         Callback, Redeem, RefuseState, Vouched, GiveUp, Resolve, FirstLogin,
         Link, CreateSession, Logout, SetStatus, Restart, limiterVars, vars,
         Limiter!ReadClock, Limiter!Admit, Limiter!Refuse, Limiter!Restart
<1> QED
  BY <1>1, <1>2 DEF Tick, Limiter!Tick

----------------------------------------------------------------------------
(* The invariant is kept *)

\* What remains true of a callback that waits.
LEMMA StillLearnt ==
    ASSUME NEW x, x \in Request, Learnt(x), issued \subseteq issued',
           active' \subseteq active, None \notin Users, active \subseteq Users,
           \A g \in Subjects : identity[g] # None => identity'[g] = identity[g]
    PROVE  Learnt(x)'
  BY DEF Learnt, Request, Redeeming

\* A session stays earned.
LEMMA StillEarned ==
    ASSUME NEW x \in Session, Earned(x), None \notin Users,
           \A g \in Subjects : identity[g] # None => identity'[g] = identity[g]
    PROVE  Earned(x)'
  BY DEF Earned, Session

\* Requests move on, each with the state it has, if it keeps it.
LEMMA RequestsKeep ==
    ASSUME SignInInv, [Next]_vars, req' \in [Requests -> Request],
           \A p \in Requests :
              req'[p] # req[p] =>
                  /\ Learnt(req[p])'
                  /\ req'[p].pc \in Redeeming =>
                        req[p].pc \in Redeeming /\ req'[p].state = req[p].state,
           UNCHANGED <<pending, issued, active, sessions, changes>>,
           identity' \in [Subjects -> Users \cup {None}],
           \A g \in Subjects : identity[g] # None => identity'[g] = identity[g]
    PROVE  SignInInv'
<1>0. /\ TypeOK /\ None \notin Users /\ LimiterInv' /\ Limiter!TypeOK'
      /\ now \in Int /\ now' \in Int /\ now <= now' /\ StateTTL \in Nat
      /\ req \in [Requests -> Request] /\ sessions \in Seq(Session)
  BY LimiterKept, LimiterTypes, ClockForward DEF SignInInv, TypeOK
<1>1. \A p \in Requests :
         req'[p].pc \in Redeeming =>
             req[p].pc \in Redeeming /\ req'[p].state = req[p].state
  OBVIOUS
<1>2. TypeOK'
  BY <1>0 DEF TypeOK
<1>3. ASSUME NEW p \in Requests
      PROVE  Learnt(req[p])'
  <2> PICK y : y = req[p]
    OBVIOUS
  <2>1. CASE req'[p] = y
    <3>1. y \in Request /\ Learnt(y)
      BY <1>0 DEF SignInInv
    <3>2. Learnt(y)'
      BY <1>0, <3>1, StillLearnt DEF TypeOK
    <3> QED
      BY <2>1, <3>2
  <2> QED
    BY <2>1
<1>4. StoreSound'
  <2> SUFFICES ASSUME NEW s \in States, pending[s] # Absent
               PROVE  /\ s \in issued /\ StateTTL <= pending[s]
                      /\ pending[s] <= now' + StateTTL
    BY DEF StoreSound
  <2>1. pending[s] \in Int
    BY <1>0, LimiterTypes DEF TypeOK, Absent
  <2> QED
    BY <1>0, <2>1 DEF SignInInv, StoreSound
<1>5. Once'
  BY <1>0, <1>1 DEF SignInInv, Once, OneSessionPerState
<1>6. ASSUME NEW i \in DOMAIN sessions
      PROVE  Earned(sessions[i])'
  <2> PICK y : y = sessions[i]
    OBVIOUS
  <2>1. y \in Session /\ Earned(y)
    BY <1>0, <1>6 DEF SignInInv
  <2>2. Earned(y)'
    BY <1>0, <2>1, StillEarned
  <2> QED
    BY <2>2
<1> QED
  BY <1>0, <1>2, <1>3, <1>4, <1>5, <1>6 DEF SignInInv

LEMMA MoveKeeps ==
    ASSUME SignInInv, [Next]_vars, NEW r \in Requests, NEW x \in Request,
           Learnt(x)', req' = [req EXCEPT ![r] = x],
           x.pc \in Redeeming =>
               req[r].pc \in Redeeming /\ x.state = req[r].state,
           UNCHANGED <<pending, issued, active, sessions, changes>>,
           identity' \in [Subjects -> Users \cup {None}],
           \A g \in Subjects : identity[g] # None => identity'[g] = identity[g]
    PROVE  SignInInv'
<1>1. req \in [Requests -> Request]
  BY DEF SignInInv, TypeOK
<1>2. /\ req' \in [Requests -> Request] /\ req'[r] = x
      /\ \A p \in Requests \ {r} : req'[p] = req[p]
  BY <1>1
<1> QED
  BY <1>2, RequestsKeep

LEMMA IdleFacts == Idle \in Request /\ Idle.pc = "idle" /\ Learnt(Idle)
<1>1. 0 \in 0..MaxTime
  BY SignInAssumption DEF Limiter!Sane
<1> QED
  BY <1>1 DEF Idle, Request, Learnt, Redeeming

\* The limiter, refused logins, requests that end.
LEMMA QuietKeeps ==
    ASSUME SignInInv, [Next]_vars,
           \/ UNCHANGED vars \/ Tick
           \/ \E r \in Requests :
                 Login(r) \/ TooMany(r) \/ RefuseReturn(r) \/ GiveUp(r)
    PROVE  SignInInv'
<1>0. /\ req \in [Requests -> Request]
      /\ identity \in [Subjects -> Users \cup {None}]
  BY DEF SignInInv, TypeOK
<1>1. /\ \/ req' = req
         \/ \E r \in Requests : req' = [req EXCEPT ![r] = Idle]
      /\ UNCHANGED <<pending, issued, active, sessions, changes, identity>>
  BY DEF Tick, Login, TooMany, RefuseReturn, GiveUp, Leave, vars
<1>2. Learnt(Idle)'
  BY IdleFacts DEF Learnt, Redeeming
<1>3. CASE req' = req
  BY <1>0, <1>1, <1>3, RequestsKeep
<1>4. ASSUME NEW r \in Requests, req' = [req EXCEPT ![r] = Idle]
      PROVE  SignInInv'
  BY <1>0, <1>1, <1>2, <1>4, IdleFacts, MoveKeeps DEF Redeeming
<1> QED
  BY <1>1, <1>3, <1>4

LEMMA AdmittedKeeps ==
    ASSUME SignInInv, [Next]_vars, NEW r \in Requests, Admitted(r)
    PROVE  SignInInv'
<1> PICK x : x = [req[r] EXCEPT !.pc = "create", !.since = stamp[r]]
  OBVIOUS
<1>0. /\ req \in [Requests -> Request] /\ stamp[r] \in 0..MaxTime
      /\ identity \in [Subjects -> Users \cup {None}]
  BY LimiterTypes DEF SignInInv, TypeOK, Admitted, Limiter!Admit, Limiter!NotCalling
<1>1. x \in Request /\ x.pc = "create"
  BY <1>0 DEF Request
<1>2. Learnt(x)'
  BY <1>1 DEF Learnt, Redeeming
<1>3. /\ req' = [req EXCEPT ![r] = x]
      /\ UNCHANGED <<pending, issued, active, sessions, changes, identity>>
  BY DEF Admitted
<1> QED
  BY <1>0, <1>1, <1>2, <1>3, MoveKeeps DEF Redeeming

\* The callback learns an account, then a user, then links the two.
LEMMA CallbackKeeps ==
    ASSUME SignInInv, [Next]_vars, NEW r \in Requests,
           Vouched(r) \/ Resolve(r) \/ FirstLogin(r) \/ Link(r)
    PROVE  SignInInv'
<1>0. /\ req \in [Requests -> Request] /\ active \subseteq Users
      /\ identity \in [Subjects -> Users \cup {None}]
      /\ req[r] \in Request /\ Learnt(req[r]) /\ None \notin Users
      /\ Learnt(Idle)' /\ Idle \in Request /\ Idle.pc \notin Redeeming
  BY LimiterTypes, IdleFacts DEF SignInInv, TypeOK, Learnt, Redeeming
<1>1. ASSUME NEW x \in Request, req' = [req EXCEPT ![r] = x],
             req[r].pc \in Redeeming, x.pc \in {"resolve", "link", "session"},
             x.state = req[r].state, x.age = req[r].age, x.seen = req[r].seen,
             x.sub \in Subjects, x.pc \in {"link", "session"} => x.user \in x.seen,
             x.pc = "session" => identity'[x.sub] = x.user,
             UNCHANGED <<pending, issued, active, sessions, changes>>,
             identity' \in [Subjects -> Users \cup {None}],
             \A g \in Subjects : identity[g] # None => identity'[g] = identity[g]
      PROVE  SignInInv'
  <2>1. Learnt(x)'
    BY <1>0, <1>1 DEF Learnt, Redeeming
  <2> QED
    BY <1>1, <2>1, MoveKeeps
<1>2. ASSUME req' = [req EXCEPT ![r] = Idle],
             UNCHANGED <<pending, issued, active, sessions, changes, identity>>
      PROVE  SignInInv'
  BY <1>0, <1>2, MoveKeeps
<1>3. CASE Vouched(r)
  <2>1. PICK g \in Subjects, u \in Users \cup {None} :
           req' = [req EXCEPT ![r].pc = "resolve", ![r].sub = g, ![r].user = u]
    BY <1>3 DEF Vouched
  <2> PICK x : x = [req[r] EXCEPT !.pc = "resolve", !.sub = g, !.user = u]
    OBVIOUS
  <2>2. /\ x \in Request /\ x.pc = "resolve" /\ x.sub = g
        /\ x.state = req[r].state /\ x.age = req[r].age /\ x.seen = req[r].seen
    BY <1>0 DEF Request
  <2>3. req' = [req EXCEPT ![r] = x] /\ req[r].pc = "google"
    BY <1>0, <1>3, <2>1 DEF Vouched
  <2> QED
    BY <1>0, <1>1, <1>3, <2>2, <2>3 DEF Vouched, Redeeming
<1>4. CASE Resolve(r)
  <2> PICK u : u = identity[req[r].sub]
    OBVIOUS
  <2>1. CASE u \in active
    <3> PICK x : x = [req[r] EXCEPT !.pc = "session", !.user = u]
      OBVIOUS
    <3>1. /\ x \in Request /\ x.pc = "session" /\ x.user = u
          /\ x.sub = req[r].sub
          /\ x.state = req[r].state /\ x.age = req[r].age /\ x.seen = req[r].seen
      BY <1>0, <2>1 DEF Request
    <3>2. req' = [req EXCEPT ![r] = x] /\ req[r].pc = "resolve"
      BY <1>0, <1>4, <2>1 DEF Resolve, KnownAccount
    <3>3. x.sub \in Subjects /\ u \in x.seen
      BY <1>0, <2>1, <3>1, <3>2 DEF Learnt, Redeeming
    <3> QED
      BY <1>0, <1>1, <1>4, <3>1, <3>2, <3>3 DEF Resolve, Redeeming
  <2>2. CASE u \notin active
    BY <1>2, <1>4, <2>2 DEF Resolve, KnownAccount, Leave
  <2> QED
    BY <2>1, <2>2
<1>5. CASE FirstLogin(r)
  <2>1. CASE req[r].user \in active
    <3> PICK x : x = [req[r] EXCEPT !.pc = "link"]
      OBVIOUS
    <3>1. /\ x \in Request /\ x.pc = "link" /\ x.user = req[r].user
          /\ x.sub = req[r].sub
          /\ x.state = req[r].state /\ x.age = req[r].age /\ x.seen = req[r].seen
      BY <1>0 DEF Request
    <3>2. req' = [req EXCEPT ![r] = x] /\ req[r].pc = "resolve"
      BY <1>0, <1>5, <2>1 DEF FirstLogin, Goto
    <3>3. x.sub \in Subjects /\ x.user \in x.seen
      BY <1>0, <2>1, <3>1, <3>2 DEF Learnt, Redeeming
    <3> QED
      BY <1>0, <1>1, <1>5, <3>1, <3>2, <3>3 DEF FirstLogin, Redeeming
  <2>2. CASE req[r].user \notin active
    BY <1>2, <1>5, <2>2 DEF FirstLogin, Leave
  <2> QED
    BY <2>1, <2>2
<1>6. CASE Link(r)
  <2>1. CASE identity[req[r].sub] = None
    <3> PICK x : x = [req[r] EXCEPT !.pc = "session"]
      OBVIOUS
    <3>1. /\ x \in Request /\ x.pc = "session" /\ x.user = req[r].user
          /\ x.sub = req[r].sub
          /\ x.state = req[r].state /\ x.age = req[r].age /\ x.seen = req[r].seen
      BY <1>0 DEF Request
    <3>2. req' = [req EXCEPT ![r] = x] /\ req[r].pc = "link"
      BY <1>0, <1>6, <2>1 DEF Link, MayLink, Goto
    <3>3. x.sub \in Subjects /\ x.user \in x.seen
      BY <1>0, <3>1, <3>2 DEF Learnt, Redeeming
    <3>4. identity' = [identity EXCEPT ![x.sub] = x.user]
      BY <1>6, <2>1, <3>1 DEF Link, MayLink
    <3>5. /\ identity' \in [Subjects -> Users \cup {None}]
          /\ identity'[x.sub] = x.user
          /\ \A g \in Subjects : identity[g] # None => identity'[g] = identity[g]
      BY <1>0, <2>1, <3>1, <3>3, <3>4 DEF Request
    <3> QED
      BY <1>1, <1>6, <3>1, <3>2, <3>3, <3>5 DEF Link, Redeeming
  <2>2. CASE identity[req[r].sub] # None
    BY <1>2, <1>6, <2>2 DEF Link, MayLink, Leave
  <2> QED
    BY <2>1, <2>2
<1> QED
  BY <1>3, <1>4, <1>5, <1>6

\* What every step can rely on.
LEMMA Known ==
    ASSUME SignInInv, [Next]_vars
    PROVE  /\ LimiterInv' /\ Limiter!TypeOK' /\ None \notin Users
           /\ now \in 0..MaxTime /\ now' \in Int /\ now <= now'
           /\ {MaxTime, StateTTL, SessionTTL} \subseteq Nat
           /\ pending \in [States -> {-1} \cup 0..(MaxTime + StateTTL)]
           /\ req \in [Requests -> Request] /\ sessions \in Seq(Session)
           /\ identity \in [Subjects -> Users \cup {None}]
           /\ active \in SUBSET Users /\ issued \in SUBSET States
           /\ changes \in 0..MaxChanges
           /\ \A r \in Requests : Learnt(req[r])
           /\ Idle \in Request /\ Idle.pc = "idle" /\ Learnt(Idle)'
           /\ \A i \in DOMAIN sessions : sessions[i] \in Session /\ Earned(sessions[i])
  BY LimiterKept, LimiterTypes, ClockForward, IdleFacts
  DEF SignInInv, TypeOK, Learnt, Redeeming, Absent

\* Sessions are not touched, nor links.
LEMMA SessionsKept ==
    ASSUME SignInInv, [Next]_vars, UNCHANGED <<identity, sessions>>
    PROVE  \A i \in DOMAIN sessions' : Earned(sessions[i])'
<1> SUFFICES ASSUME NEW i \in DOMAIN sessions
             PROVE  Earned(sessions[i])'
  OBVIOUS
<1> PICK y : y = sessions[i]
  OBVIOUS
<1>1. Earned(y)'
  BY Known DEF Earned
<1> QED
  BY <1>1

\* The other callbacks, where no user is enabled.
LEMMA OthersLearnt ==
    ASSUME SignInInv, [Next]_vars, NEW p \in Requests, req'[p] = req[p],
           issued \subseteq issued', active' \subseteq active, identity' = identity
    PROVE  Learnt(req[p])'
<1> PICK y : y = req[p]
  OBVIOUS
<1>1. y \in Request /\ Learnt(y)
  BY Known
<1>2. Learnt(y)'
  BY <1>1, Known, StillLearnt
<1> QED
  BY <1>2

LEMMA CreateStateKeeps ==
    ASSUME SignInInv, [Next]_vars, NEW r \in Requests, CreateState(r)
    PROVE  SignInInv'
<1>1. PICK s \in States \ issued : /\ pending' = [pending EXCEPT ![s] = now + StateTTL]
                                    /\ issued' = issued \cup {s}
  BY DEF CreateState
<1>2. /\ req' = [req EXCEPT ![r] = Idle]
      /\ UNCHANGED <<identity, active, sessions, changes>> /\ now' = now
  BY DEF CreateState, Leave, limiterVars
<1>3. /\ req'[r] = Idle /\ \A p \in Requests \ {r} : req'[p] = req[p]
      /\ pending'[s] = now + StateTTL
      /\ \A t \in States \ {s} : pending'[t] = pending[t]
  BY <1>1, <1>2, Known
<1>4. TypeOK'
  <2>1. now + StateTTL \in 0..(MaxTime + StateTTL)
    BY Known
  <2>2. pending' \in [States -> {-1} \cup 0..(MaxTime + StateTTL)]
    BY <1>1, <2>1, Known
  <2>3. req' \in [Requests -> Request] /\ issued' \in SUBSET States
    BY <1>1, <1>2, Known
  <2> QED
    BY <1>2, <2>2, <2>3, Known DEF TypeOK, Absent
<1>5. ASSUME NEW p \in Requests
      PROVE  Learnt(req[p])'
  BY <1>1, <1>2, <1>3, Known, OthersLearnt
<1>6. StoreSound'
  <2> PICK e : e = now + StateTTL
    OBVIOUS
  <2>1. e = now' + StateTTL /\ e <= e /\ StateTTL <= e
    BY <1>2, Known
  <2>2. \A t \in States \ {s} :
           pending[t] # Absent =>
               t \in issued /\ StateTTL <= pending[t] /\ pending[t] <= e
    BY DEF SignInInv, StoreSound
  <2> QED
    BY <1>1, <1>3, <2>1, <2>2 DEF StoreSound
<1>7. Once'
  <2>1. \A p \in Requests \ {r} :
           req[p].pc \in Redeeming => req[p].state \in States \ {s}
    BY <1>1, Known DEF Learnt
  <2>2. \A i \in DOMAIN sessions : sessions[i].state \in States \ {s}
    BY <1>1, Known DEF SignInInv, Once
  <2>3. \A p \in Requests :
           req'[p].pc \in Redeeming => p # r /\ req'[p] = req[p]
    BY <1>3, Known DEF Redeeming
  <2>4. /\ \A p \in Requests :
              req[p].pc \in Redeeming => pending[req[p].state] = Absent
        /\ \A i \in DOMAIN sessions :
              sessions[i].state \in issued /\ pending[sessions[i].state] = Absent
    BY DEF SignInInv, Once
  <2> QED
    BY <1>1, <1>2, <1>3, <2>1, <2>2, <2>3, <2>4
    DEF SignInInv, Once, OneSessionPerState
<1>8. \A i \in DOMAIN sessions' : Earned(sessions[i])'
  BY <1>2, SessionsKept
<1> QED
  BY <1>4, <1>5, <1>6, <1>7, <1>8, Known DEF SignInInv

\* A presented state is popped; the callback of a valid one goes on with it.
LEMMA TakeKeeps ==
    ASSUME SignInInv, [Next]_vars, NEW r \in Requests, NEW s \in issued,
           NEW x \in Request, pending' = Take(s), req' = [req EXCEPT ![r] = x],
           UNCHANGED <<issued, identity, active, sessions, changes>>, now' = now,
           \/ x = req[r] /\ x.pc = "idle"
           \/ Learnt(x)' /\ x.state = s /\ pending[s] # Absent
    PROVE  SignInInv'
<1>1. /\ req'[r] = x /\ \A p \in Requests \ {r} : req'[p] = req[p]
      /\ s \in States /\ pending'[s] = Absent
      /\ \A t \in States \ {s} : pending'[t] = pending[t]
  BY Known DEF Take
<1>2. TypeOK'
  <2>1. pending' \in [States -> {-1} \cup 0..(MaxTime + StateTTL)]
    BY Known DEF Take, Absent
  <2>2. req' \in [Requests -> Request]
    BY Known
  <2> QED
    BY <2>1, <2>2, Known DEF TypeOK, Absent
<1>3. ASSUME NEW p \in Requests
      PROVE  Learnt(req[p])'
  <2>1. CASE p # r \/ x = req[r]
    BY <1>1, <2>1, OthersLearnt
  <2>2. CASE p = r /\ x # req[r]
    BY <1>1, <2>2
  <2> QED
    BY <2>1, <2>2
<1>4. StoreSound'
  BY <1>1 DEF SignInInv, StoreSound
<1>5. Once'
  <2>1. \A p \in Requests \ {r} :
           req[p].pc \in Redeeming =>
               req[p].state \in States /\ pending[req[p].state] = Absent
    BY Known DEF SignInInv, Once, Learnt
  <2>2. \A i \in DOMAIN sessions :
           sessions[i].state \in States /\ pending[sessions[i].state] = Absent
    BY Known DEF SignInInv, Once
  <2>3. x.pc \in Redeeming => x.state = s /\ pending[s] # Absent
    BY DEF Redeeming
  <2> QED
    BY <1>1, <2>1, <2>2, <2>3 DEF SignInInv, Once, OneSessionPerState
<1>6. \A i \in DOMAIN sessions' : Earned(sessions[i])'
  BY SessionsKept
<1> QED
  BY <1>2, <1>3, <1>4, <1>5, <1>6, Known DEF SignInInv

LEMMA PresentKeeps ==
    ASSUME SignInInv, [Next]_vars, NEW r \in Requests,
           Redeem(r) \/ RefuseState(r)
    PROVE  SignInInv'
<1>1. CASE Redeem(r)
  <2>1. PICK s \in issued :
           /\ Valid(s) /\ pending' = Take(s)
           /\ req' = [req EXCEPT ![r] =
                        [Idle EXCEPT !.pc = "google", !.state = s, !.seen = active,
                                     !.age = now - (pending[s] - StateTTL)]]
    BY <1>1 DEF Redeem
  <2> PICK age : age = now - (pending[s] - StateTTL)
    OBVIOUS
  <2>2. age \in 0..MaxTime /\ age <= StateTTL
    <3> PICK d : d = pending[s]
      OBVIOUS
    <3>1. StateTTL <= d /\ d <= now + StateTTL /\ now <= d
      BY <2>1, Known DEF SignInInv, StoreSound, Valid
    <3>2. d \in Int
      BY Known
    <3> QED
      BY <3>1, <3>2, Known
  <2> PICK x : x = [Idle EXCEPT !.pc = "google", !.state = s, !.seen = active,
                                !.age = age]
    OBVIOUS
  <2>3. /\ x \in Request /\ x.pc = "google" /\ x.state = s
        /\ x.seen = active /\ x.age = age
    BY <2>2, Known DEF Request, Idle
  <2>4. UNCHANGED <<issued, identity, active, sessions, changes>> /\ now' = now
    BY <1>1 DEF Redeem, limiterVars
  <2>5. Learnt(x)'
    BY <2>2, <2>3, <2>4 DEF Learnt
  <2> QED
    BY <2>1, <2>3, <2>4, <2>5, TakeKeeps DEF Valid
<1>2. CASE RefuseState(r)
  <2>1. PICK s \in issued : pending' = Take(s)
    BY <1>2 DEF RefuseState
  <2>2. /\ req' = [req EXCEPT ![r] = req[r]] /\ req[r] \in Request
        /\ req[r].pc = "idle"
    BY <1>2, Known DEF RefuseState
  <2>3. UNCHANGED <<issued, identity, active, sessions, changes>> /\ now' = now
    BY <1>2 DEF RefuseState, limiterVars
  <2> QED
    BY <2>1, <2>2, <2>3, TakeKeeps
<1> QED
  BY <1>1, <1>2

LEMMA CreateSessionKeeps ==
    ASSUME SignInInv, [Next]_vars, NEW r \in Requests, CreateSession(r)
    PROVE  SignInInv'
<1> PICK row, n : row = Row(r) /\ n = Len(sessions) + 1
  OBVIOUS
<1>1. /\ req[r].pc = "session" /\ sessions' = Append(sessions, row)
      /\ req' = [req EXCEPT ![r] = Idle] /\ now' = now
      /\ UNCHANGED <<pending, issued, identity, active, changes>>
  BY DEF CreateSession, Insert, Leave, limiterVars
<1>2. /\ req[r] \in Request /\ Learnt(req[r])
      /\ req[r].state \in issued /\ req[r].sub \in Subjects
      /\ req[r].age <= StateTTL /\ req[r].user \in req[r].seen
      /\ identity[req[r].sub] = req[r].user
      /\ pending[req[r].state] = Absent
  BY <1>1, Known DEF Learnt, Redeeming, SignInInv, Once
<1>3. row \in Session /\ row.state = req[r].state /\ Earned(row)
  <2>1. now + SessionTTL \in 0..(MaxTime + SessionTTL)
    BY Known
  <2>2. req[r].user \in Users /\ req[r].state \in States
    BY <1>2, Known DEF Request
  <2> QED
    BY <1>2, <2>1, <2>2, Known DEF Row, Session, Request, Earned
<1>4. /\ n \in Nat /\ DOMAIN sessions = 1..(n - 1) /\ DOMAIN sessions' = 1..n
      /\ sessions' \in Seq(Session) /\ sessions'[n] = row
      /\ \A i \in 1..(n - 1) : sessions'[i] = sessions[i]
  BY <1>1, <1>3, Known
<1>5. req'[r] = Idle /\ \A p \in Requests \ {r} : req'[p] = req[p]
  BY <1>1, Known
<1>6. TypeOK'
  <2>1. req' \in [Requests -> Request]
    BY <1>1, Known
  <2> QED
    BY <1>1, <1>4, <2>1, Known DEF TypeOK, Absent
<1>7. ASSUME NEW p \in Requests
      PROVE  Learnt(req[p])'
  BY <1>1, <1>5, Known, OthersLearnt
<1>8. StoreSound'
  BY <1>1 DEF SignInInv, StoreSound
<1>9. Once'
  <2>1. \A p \in Requests :
           req'[p].pc \in Redeeming => p # r /\ req'[p] = req[p]
    BY <1>5, Known DEF Redeeming
  <2>2. \A p \in Requests \ {r} :
           req[p].pc \in Redeeming => req[p].state # row.state
    BY <1>1, <1>3 DEF SignInInv, Once, Redeeming
  <2>3. \A i \in 1..(n - 1) : sessions[i].state # row.state
    BY <1>1, <1>3, <1>4 DEF SignInInv, Once, Redeeming
  <2>4. OneSessionPerState'
    <3> SUFFICES ASSUME NEW i \in 1..n, NEW j \in 1..n,
                        sessions'[i].state = sessions'[j].state
                 PROVE  i = j
      BY <1>4 DEF OneSessionPerState
    <3>1. \A k \in 1..n : k = n \/ k \in 1..(n - 1)
      BY <1>4
    <3>2. CASE i \in 1..(n - 1) /\ j \in 1..(n - 1)
      BY <1>4, <3>2 DEF SignInInv, Once, OneSessionPerState
    <3> QED
      BY <1>4, <2>3, <3>1, <3>2
  <2>5. ASSUME NEW i \in 1..n
        PROVE  /\ sessions'[i].state \in issued
               /\ pending[sessions'[i].state] = Absent
               /\ \A p \in Requests :
                     req'[p].pc \in Redeeming => req'[p].state # sessions'[i].state
    <3>1. CASE i = n
      BY <1>2, <1>3, <1>4, <2>1, <2>2, <3>1
    <3>2. CASE i \in 1..(n - 1)
      BY <1>4, <2>1, <3>2 DEF SignInInv, Once
    <3> QED
      BY <1>4, <3>1, <3>2
  <2>6. /\ \A p \in Requests :
              req'[p].pc \in Redeeming => pending[req'[p].state] = Absent
        /\ \A p, q \in Requests :
              p # q /\ req'[p].pc \in Redeeming /\ req'[q].pc \in Redeeming =>
                  req'[p].state # req'[q].state
    BY <2>1 DEF SignInInv, Once
  <2> QED
    BY <1>1, <1>4, <2>4, <2>5, <2>6 DEF Once
<1>10. ASSUME NEW i \in 1..n
       PROVE  Earned(sessions[i])'
  <2> PICK y : y = sessions'[i]
    OBVIOUS
  <2>1. CASE i = n
    BY <1>1, <1>3, <1>4, <2>1 DEF Earned
  <2>2. CASE i \in 1..(n - 1)
    <3>1. y = sessions[i] /\ i \in DOMAIN sessions
      BY <1>4, <2>2
    <3>2. Earned(y)
      BY <3>1, Known
    <3> QED
      BY <1>1, <3>2 DEF Earned
  <2> QED
    BY <1>4, <2>1, <2>2
<1> QED
  BY <1>4, <1>6, <1>7, <1>8, <1>9, <1>10, Known DEF SignInInv

LEMMA LogoutKeeps ==
    ASSUME SignInInv, [Next]_vars, Logout
    PROVE  SignInInv'
<1>1. PICK k \in DOMAIN sessions : sessions' = [sessions EXCEPT ![k].revoked = TRUE]
  BY DEF Logout
<1>2. UNCHANGED <<pending, issued, req, identity, active, changes>> /\ now' = now
  BY DEF Logout, limiterVars
<1>3. ASSUME NEW i \in DOMAIN sessions
      PROVE  /\ sessions'[i] \in Session /\ sessions'[i].state = sessions[i].state
             /\ Earned(sessions[i])'
  <2> PICK y : y = [sessions[i] EXCEPT !.revoked = TRUE]
    OBVIOUS
  <2>1. /\ y \in Session /\ y.state = sessions[i].state /\ Earned(y)
        /\ sessions'[i] \in {y, sessions[i]}
    BY <1>1, Known DEF Session, Earned
  <2> QED
    BY <1>2, <2>1, Known DEF Earned
<1>4. DOMAIN sessions' = DOMAIN sessions /\ sessions' \in Seq(Session)
  <2> PICK n : n = Len(sessions)
    OBVIOUS
  <2>1. n \in Nat /\ DOMAIN sessions = 1..n /\ sessions \in [1..n -> Session]
    BY Known
  <2>2. sessions' \in [1..n -> Session]
    BY <1>1, <1>3, <2>1
  <2> QED
    BY <2>1, <2>2
<1>5. TypeOK'
  BY <1>2, <1>4, Known DEF TypeOK, Absent
<1>6. ASSUME NEW p \in Requests
      PROVE  Learnt(req[p])'
  BY <1>2, OthersLearnt
<1>7. StoreSound' /\ Once'
  BY <1>2, <1>3, <1>4 DEF SignInInv, StoreSound, Once, OneSessionPerState
<1> QED
  BY <1>3, <1>4, <1>5, <1>6, <1>7, Known DEF SignInInv

LEMMA SetStatusKeeps ==
    ASSUME SignInInv, [Next]_vars, SetStatus
    PROVE  SignInInv'
<1>1. /\ UNCHANGED <<pending, issued, identity, sessions>> /\ now' = now
      /\ changes' \in 0..MaxChanges
  BY Known, SignInAssumption DEF SetStatus, limiterVars
<1>2. ASSUME active' \subseteq active, req' = req
      PROVE  SignInInv'
  <2>1. TypeOK'
    BY <1>1, <1>2, Known DEF TypeOK, Absent
  <2>2. ASSUME NEW p \in Requests
        PROVE  Learnt(req[p])'
    BY <1>1, <1>2, OthersLearnt
  <2>3. StoreSound' /\ Once'
    BY <1>1, <1>2 DEF SignInInv, StoreSound, Once, OneSessionPerState
  <2> QED
    BY <1>1, <2>1, <2>2, <2>3, Known, SessionsKept DEF SignInInv
<1>3. ASSUME NEW u \in Users, active' = active \cup {u},
             req' = [p \in Requests |->
                        IF req[p].pc \in Redeeming
                        THEN [req[p] EXCEPT !.seen = @ \cup {u}] ELSE req[p]]
      PROVE  SignInInv'
  <2>1. ASSUME NEW p \in Requests
        PROVE  /\ req'[p] \in Request /\ req'[p].pc = req[p].pc
               /\ req'[p].state = req[p].state /\ Learnt(req[p])'
    <3> PICK y : y = [req[p] EXCEPT !.seen = @ \cup {u}]
      OBVIOUS
    <3>1. /\ y \in Request /\ y.pc = req[p].pc /\ y.state = req[p].state
          /\ y.age = req[p].age /\ y.sub = req[p].sub /\ y.user = req[p].user
          /\ y.seen = req[p].seen \cup {u}
      BY Known DEF Request
    <3>2. CASE req[p].pc \in Redeeming
      <4>1. req'[p] = y
        BY <1>3, <3>2
      <4>2. Learnt(y)'
        BY <1>1, <1>3, <3>1, <3>2, Known DEF Learnt
      <4> QED
        BY <3>1, <4>1, <4>2
    <3>3. CASE req[p].pc \notin Redeeming
      <4>1. req'[p] = req[p]
        BY <1>3, <3>3
      <4> QED
        BY <3>3, <4>1, Known DEF Learnt, Redeeming
    <3> QED
      BY <3>2, <3>3
  <2>2. TypeOK'
    <3>1. req' \in [Requests -> Request]
      BY <1>3, <2>1
    <3> QED
      BY <1>1, <1>3, <3>1, Known DEF TypeOK, Absent
  <2>3. StoreSound' /\ Once'
    BY <1>1, <2>1 DEF SignInInv, StoreSound, Once, OneSessionPerState
  <2> QED
    BY <1>1, <2>1, <2>2, <2>3, Known, SessionsKept DEF SignInInv
<1> QED
  BY <1>2, <1>3 DEF SetStatus, Redeeming

LEMMA RestartKeeps ==
    ASSUME SignInInv, [Next]_vars, Restart
    PROVE  SignInInv'
<1>1. /\ UNCHANGED <<issued, identity, active, sessions>>
      /\ pending' = [s \in States |-> Absent] /\ req' = [r \in Requests |-> Idle]
      /\ changes' \in 0..MaxChanges
  BY Known, SignInAssumption DEF Restart
<1>2. TypeOK'
  BY <1>1, Known DEF TypeOK, Absent
<1>3. \A p \in Requests : Learnt(req[p])'
  BY <1>1, Known DEF Learnt, Redeeming
<1>4. StoreSound'
  BY <1>1 DEF StoreSound
<1>5. Once'
  <2>1. \A i \in DOMAIN sessions : sessions[i].state \in States
    BY Known DEF Session
  <2> QED
    BY <1>1, <2>1, Known DEF SignInInv, Once, OneSessionPerState, Redeeming
<1> QED
  BY <1>1, <1>2, <1>3, <1>4, <1>5, Known, SessionsKept DEF SignInInv

----------------------------------------------------------------------------
(* The invariant holds *)

LEMMA SignInHolds == Spec => []SignInInv
<1>1. Init => SignInInv
  <2> SUFFICES ASSUME Init
               PROVE  SignInInv
    OBVIOUS
  <2>1. Limiter!Sane /\ Limiter!Init
    BY SignInAssumption DEF Init
  <2>2. LimiterInv /\ Limiter!TypeOK
    <3>1. LimiterInv
      BY <2>1, LimiterStarts
    <3> QED
      BY <3>1 DEF LimiterInv
  <2>3. TypeOK
    BY <2>2, IdleFacts, SignInAssumption DEF Init, TypeOK
  <2>4. DOMAIN sessions = {} /\ \A r \in Requests : req[r].pc = "idle"
    BY IdleFacts DEF Init
  <2> QED
    BY <2>2, <2>3, <2>4
    DEF SignInInv, Learnt, Redeeming, Once, OneSessionPerState, StoreSound, Init
<1>2. SignInInv /\ [Next]_vars => SignInInv'
  BY QuietKeeps, AdmittedKeeps, CallbackKeeps, CreateStateKeeps, PresentKeeps,
     CreateSessionKeeps, LogoutKeeps, SetStatusKeeps, RestartKeeps
  DEF Next, Begin, Callback
<1> QED
  BY <1>1, <1>2, PTL DEF Spec

----------------------------------------------------------------------------
(* Who paid for a login state *)

\* Each state in the store owes its place to the admitted request f[s], each
\* request about to make one to g[r], no two of them to the same one; and all
\* within the time a request may take from the limiter's clock read.
StatesPaid(f) ==
    \A s \in States :
        pending[s] # Absent =>
            /\ f[s] \in 1..Len(log)
            /\ log[f[s]].at + StateTTL <= pending[s]
            /\ pending[s] <= log[f[s]].stamp + MaxDelay + StateTTL

RequestsPaid(g) ==
    \A r \in Requests :
        req[r].pc = "create" =>
            /\ g[r] \in 1..Len(log)
            /\ log[g[r]].stamp = req[r].since
            /\ now <= req[r].since + MaxDelay

OneEach(f, g) ==
    /\ \A s, t \in States :
          pending[s] # Absent /\ pending[t] # Absent /\ f[s] = f[t] => s = t
    /\ \A p, r \in Requests :
          req[p].pc = "create" /\ req[r].pc = "create" /\ g[p] = g[r] => p = r
    /\ \A s \in States, r \in Requests :
          pending[s] # Absent /\ req[r].pc = "create" => f[s] # g[r]

Ticketed(f, g) ==
    /\ f \in [States -> Nat] /\ g \in [Requests -> Nat]
    /\ StatesPaid(f) /\ RequestsPaid(g) /\ OneEach(f, g)

TicketInv == SignInInv /\ \E f, g : Ticketed(f, g)

\* No request is admitted, no state is made: the tickets are the same.
LEMMA TicketsKept ==
    ASSUME NEW f, NEW g, Ticketed(f, g), log' = log,
           \A s \in States : pending'[s] \in {pending[s], Absent},
           \A r \in Requests :
              req'[r].pc = "create" =>
                  /\ req[r].pc = "create" /\ req'[r].since = req[r].since
                  /\ now' <= req[r].since + MaxDelay
    PROVE  Ticketed(f, g)'
  BY DEF Ticketed, StatesPaid, RequestsPaid, OneEach

\* The actions that leave the log alone and make no state.
LEMMA OtherTickets ==
    ASSUME SignInInv, [Next]_vars, NEW f, NEW g, Ticketed(f, g),
           \/ UNCHANGED vars \/ Tick \/ Logout \/ SetStatus
           \/ \E r \in Requests :
                 Login(r) \/ TooMany(r) \/ RefuseReturn(r) \/ Callback(r)
    PROVE  Ticketed(f, g)'
<1>0. \A r \in Requests :
         req[r] \in Request /\ (req[r].pc = "create" => now <= req[r].since + MaxDelay)
  BY Known DEF Ticketed, RequestsPaid
<1>1. CASE Tick
  <2>1. \A r \in Requests : req[r].pc = "create" => now' <= req[r].since + MaxDelay
    <3>1. \A r \in Requests : req[r].since \in Int
      BY <1>0 DEF Request
    <3>2. MaxDelay \in Int /\ now \in Int
      BY Known, SignInAssumption DEF Limiter!Sane
    <3> QED
      BY <1>1, <3>1, <3>2 DEF Tick, Limiter!Tick
  <2> QED
    BY <1>1, <2>1, TicketsKept DEF Tick, Limiter!Tick
<1>2. CASE Logout \/ SetStatus \/ UNCHANGED vars
  <2>1. log' = log /\ now' = now /\ pending' = pending
    BY <1>2 DEF Logout, SetStatus, limiterVars, vars
  <2>2. \A r \in Requests : req'[r].pc = req[r].pc /\ req'[r].since = req[r].since
    <3>1. CASE Logout \/ UNCHANGED vars
      BY <3>1 DEF Logout, vars
    <3>2. CASE SetStatus
      <4> SUFFICES ASSUME NEW r \in Requests
                   PROVE  req'[r].pc = req[r].pc /\ req'[r].since = req[r].since
        OBVIOUS
      <4>1. PICK u \in Users :
               \/ req' = req
               \/ req' = [p \in Requests |->
                            IF req[p].pc \in {"google", "resolve", "link", "session"}
                            THEN [req[p] EXCEPT !.seen = @ \cup {u}] ELSE req[p]]
        BY <3>2 DEF SetStatus
      <4> PICK y : y = [req[r] EXCEPT !.seen = @ \cup {u}]
        OBVIOUS
      <4>2. y.pc = req[r].pc /\ y.since = req[r].since
        BY <1>0 DEF Request
      <4>3. req'[r] = req[r] \/ req'[r] = y
        BY <4>1
      <4> QED
        BY <4>2, <4>3
    <3> QED
      BY <1>2, <3>1, <3>2
  <2> QED
    BY <1>0, <2>1, <2>2, TicketsKept
<1>3. ASSUME NEW r \in Requests,
             Login(r) \/ TooMany(r) \/ RefuseReturn(r) \/ Callback(r)
      PROVE  Ticketed(f, g)'
  <2>1. log' = log /\ now' = now
    BY <1>3 DEF Login, TooMany, RefuseReturn, Callback, Redeem, RefuseState,
                Vouched, GiveUp, Resolve, FirstLogin, Link, CreateSession,
                limiterVars, Limiter!ReadClock, Limiter!Refuse
  <2>2. \A s \in States : pending'[s] \in {pending[s], Absent}
    BY <1>3, Known
    DEF Login, TooMany, RefuseReturn, Callback, Redeem, RefuseState, Take,
        Vouched, GiveUp, Resolve, FirstLogin, Link, CreateSession
  <2>3. /\ \A p \in Requests \ {r} : req'[p] = req[p]
        /\ req'[r] = req[r] \/ req'[r].pc # "create"
    <3>1. ASSUME NEW x, req' = [req EXCEPT ![r] = x], x.pc # "create"
          PROVE  /\ \A p \in Requests \ {r} : req'[p] = req[p]
                 /\ req'[r].pc # "create"
      BY <3>1, Known
    <3>2. CASE Login(r) \/ TooMany(r) \/ RefuseState(r)
      BY <3>2 DEF Login, TooMany, RefuseState
    <3>3. CASE RefuseReturn(r) \/ GiveUp(r) \/ CreateSession(r)
      BY <3>1, <3>3, IdleFacts DEF RefuseReturn, GiveUp, CreateSession, Leave
    <3>4. CASE Redeem(r)
      BY <3>1, <3>4 DEF Redeem, Idle
    <3>5. ASSUME NEW pc \in {"resolve", "link", "session"}, NEW g1, NEW u1,
                 \/ req' = [req EXCEPT ![r].pc = pc]
                 \/ req' = [req EXCEPT ![r].pc = pc, ![r].user = u1]
                 \/ req' = [req EXCEPT ![r].pc = pc, ![r].sub = g1, ![r].user = u1]
          PROVE  /\ \A p \in Requests \ {r} : req'[p] = req[p]
                 /\ req'[r].pc # "create"
      BY <1>0, <3>5, Known DEF Request
    <3>6. CASE Vouched(r)
      BY <3>5, <3>6 DEF Vouched
    <3>7. CASE Resolve(r)
      BY <3>1, <3>5, <3>7, IdleFacts DEF Resolve, Leave
    <3>8. CASE FirstLogin(r)
      BY <3>1, <3>5, <3>8, IdleFacts DEF FirstLogin, Leave, Goto
    <3>9. CASE Link(r)
      BY <3>1, <3>5, <3>9, IdleFacts DEF Link, Leave, Goto
    <3> QED
      BY <1>3, <3>2, <3>3, <3>4, <3>6, <3>7, <3>8, <3>9 DEF Callback
  <2> QED
    BY <1>0, <2>1, <2>2, <2>3, TicketsKept
<1> QED
  BY <1>1, <1>2, <1>3

\* A request that is let in is a ticket of its own.
LEMMA AdmittedTicket ==
    ASSUME SignInInv, [Next]_vars, NEW f, NEW g, Ticketed(f, g),
           NEW r \in Requests, Admitted(r)
    PROVE  \E h : Ticketed(f, h)'
<1> PICK n : n = Len(log) + 1
  OBVIOUS
<1> PICK h : h = [g EXCEPT ![r] = n]
  OBVIOUS
<1>1. /\ stamp[r] \in 0..MaxTime /\ now <= stamp[r] + MaxDelay
      /\ log \in Seq(Limiter!Hit) /\ now \in 0..MaxTime
  BY Known
  DEF SignInInv, TypeOK, Limiter!TypeOK, LimiterInv, StampsFresh,
      Limiter!NotCalling, Admitted, Limiter!Admit
<1>2. /\ log' = Append(log, [stamp |-> stamp[r], at |-> now])
      /\ now' = now /\ pending' = pending
      /\ req' = [req EXCEPT ![r].pc = "create", ![r].since = stamp[r]]
  BY DEF Admitted, Limiter!Admit
<1>3. /\ n \in Nat /\ Len(log) = n - 1 /\ Len(log') = n /\ 1 <= n
      /\ \A i \in 1..(n - 1) : log'[i] = log[i]
      /\ log'[n].stamp = stamp[r]
  <2>1. [stamp |-> stamp[r], at |-> now] \in Limiter!Hit
    BY <1>1 DEF Limiter!Hit
  <2> QED
    BY <1>1, <1>2, <2>1
<1>4. /\ req'[r].pc = "create" /\ req'[r].since = stamp[r]
      /\ \A p \in Requests \ {r} : req'[p] = req[p]
  BY <1>2, Known DEF Request
<1>5. /\ h \in [Requests -> Nat] /\ h[r] = n
      /\ \A p \in Requests \ {r} : h[p] = g[p]
  BY <1>3 DEF Ticketed
<1>6. \A i \in 1..(n - 1) : i \in 1..n /\ i # n
  BY <1>3
<1>7. ASSUME NEW s \in States, pending'[s] # Absent
      PROVE  /\ f[s] \in 1..(n - 1)
             /\ log'[f[s]].at + StateTTL <= pending'[s]
             /\ pending'[s] <= log'[f[s]].stamp + MaxDelay + StateTTL
  BY <1>2, <1>3, <1>7 DEF Ticketed, StatesPaid
<1>8. ASSUME NEW p \in Requests \ {r}, req'[p].pc = "create"
      PROVE  /\ h[p] \in 1..(n - 1)
             /\ log'[h[p]].stamp = req'[p].since
             /\ now' <= req'[p].since + MaxDelay
  <2>1. req'[p] = req[p] /\ h[p] = g[p] /\ now' = now /\ req[p].pc = "create"
    BY <1>2, <1>4, <1>5, <1>8
  <2>2. /\ g[p] \in 1..(n - 1) /\ log[g[p]].stamp = req[p].since
        /\ now <= req[p].since + MaxDelay
    BY <1>3, <2>1 DEF Ticketed, RequestsPaid
  <2> QED
    BY <1>3, <2>1, <2>2
<1>9. n \in 1..n
  BY <1>3
<1>10. OneEach(f, h)'
  <2>1. ASSUME NEW s \in States, NEW p \in Requests,
               pending'[s] # Absent, req'[p].pc = "create"
        PROVE  f[s] # h[p]
    <3>1. CASE p = r
      BY <1>5, <1>6, <1>7, <2>1, <3>1
    <3>2. CASE p # r
      BY <1>2, <1>4, <1>5, <2>1, <3>2 DEF Ticketed, OneEach
    <3> QED
      BY <3>1, <3>2
  <2>2. ASSUME NEW p \in Requests \ {r}, NEW q \in Requests \ {r},
               req'[p].pc = "create", req'[q].pc = "create", h[p] = h[q]
        PROVE  p = q
    BY <1>4, <1>5, <2>2 DEF Ticketed, OneEach
  <2>3. \A p \in Requests \ {r} : req'[p].pc = "create" => h[p] # n
    BY <1>6, <1>8
  <2>4. ASSUME NEW p \in Requests, NEW q \in Requests,
               req'[p].pc = "create", req'[q].pc = "create", h[p] = h[q]
        PROVE  p = q
    BY <1>5, <2>2, <2>3, <2>4
  <2>5. \A s, t \in States :
           pending'[s] # Absent /\ pending'[t] # Absent /\ f[s] = f[t] => s = t
    BY <1>2 DEF Ticketed, OneEach
  <2> QED
    BY <2>1, <2>4, <2>5 DEF OneEach
<1>11. ASSUME NEW p \in Requests, req'[p].pc = "create"
       PROVE  /\ h[p] \in 1..n
              /\ log'[h[p]].stamp = req'[p].since
              /\ now' <= req'[p].since + MaxDelay
  BY <1>1, <1>2, <1>3, <1>4, <1>5, <1>6, <1>8, <1>9, <1>11
<1>12. f \in [States -> Nat]
  BY DEF Ticketed
<1>13. Ticketed(f, h)'
  BY <1>3, <1>5, <1>6, <1>7, <1>10, <1>11, <1>12 DEF Ticketed, StatesPaid, RequestsPaid
<1> QED
  BY <1>13

\* The state takes its request's ticket over.
LEMMA CreatedTicket ==
    ASSUME SignInInv, [Next]_vars, NEW f, NEW g, Ticketed(f, g),
           NEW r \in Requests, CreateState(r)
    PROVE  \E h : Ticketed(h, g)'
<1>1. PICK s \in States \ issued : pending' = [pending EXCEPT ![s] = now + StateTTL]
  BY DEF CreateState
<1> PICK h : h = [f EXCEPT ![s] = g[r]]
  OBVIOUS
<1>2. /\ req[r].pc = "create" /\ req' = [req EXCEPT ![r] = Idle]
      /\ now' = now /\ log' = log
  BY DEF CreateState, Leave, limiterVars
<1>3. /\ pending'[s] = now + StateTTL
      /\ \A t \in States \ {s} : pending'[t] = pending[t]
      /\ \A p \in Requests : req'[p].pc = "create" => p # r /\ req'[p] = req[p]
  BY <1>1, <1>2, Known
<1>4. /\ h \in [States -> Nat] /\ h[s] = g[r]
      /\ \A t \in States \ {s} : h[t] = f[t]
  BY DEF Ticketed
<1>5. /\ g[r] \in 1..Len(log) /\ log[g[r]].stamp = req[r].since
      /\ now <= req[r].since + MaxDelay
  BY <1>2 DEF Ticketed, RequestsPaid
<1>6. /\ log[g[r]].at + StateTTL <= now + StateTTL
      /\ now + StateTTL <= log[g[r]].stamp + MaxDelay + StateTTL
  <2>1. log[g[r]].stamp \in Int /\ log[g[r]].at \in Int /\ log[g[r]].at <= now
    BY <1>5, HitValues DEF SignInInv, LimiterInv, HitsFresh
  <2>2. now \in Int /\ StateTTL \in Int /\ MaxDelay \in Int
    BY Known, SignInAssumption DEF Limiter!Sane
  <2> QED
    BY <1>5, <2>1, <2>2
<1>7. ASSUME NEW t \in States, pending'[t] # Absent
      PROVE  /\ h[t] \in 1..Len(log)
             /\ log[h[t]].at + StateTTL <= pending'[t]
             /\ pending'[t] <= log[h[t]].stamp + MaxDelay + StateTTL
  <2>1. CASE t = s
    BY <1>3, <1>4, <1>5, <1>6, <2>1
  <2>2. CASE t # s
    BY <1>3, <1>4, <1>7, <2>2 DEF Ticketed, StatesPaid
  <2> QED
    BY <2>1, <2>2
<1>8. OneEach(h, g)'
  <2>1. ASSUME NEW t \in States \ {s}, pending[t] # Absent
        PROVE  h[t] # h[s] /\ \A p \in Requests :
                                 req'[p].pc = "create" => h[t] # g[p]
    BY <1>2, <1>3, <1>4, <2>1 DEF Ticketed, OneEach
  <2>2. ASSUME NEW t \in States \ {s}, NEW u \in States \ {s},
               pending'[t] # Absent, pending'[u] # Absent, h[t] = h[u]
        PROVE  t = u
    BY <1>3, <1>4, <2>2 DEF Ticketed, OneEach
  <2>3. \A p \in Requests : req'[p].pc = "create" => h[s] # g[p]
    BY <1>2, <1>3, <1>4 DEF Ticketed, OneEach
  <2>4. \A p, q \in Requests :
           req'[p].pc = "create" /\ req'[q].pc = "create" /\ g[p] = g[q] => p = q
    BY <1>3 DEF Ticketed, OneEach
  <2> QED
    BY <1>3, <2>1, <2>2, <2>3, <2>4 DEF OneEach
<1>9. ASSUME NEW p \in Requests, req'[p].pc = "create"
      PROVE  /\ g[p] \in 1..Len(log) /\ log[g[p]].stamp = req'[p].since
             /\ now <= req'[p].since + MaxDelay
  BY <1>3, <1>9 DEF Ticketed, RequestsPaid
<1>10. g \in [Requests -> Nat]
  BY DEF Ticketed
<1>11. Ticketed(h, g)'
  BY <1>2, <1>4, <1>7, <1>8, <1>9, <1>10 DEF Ticketed, StatesPaid, RequestsPaid
<1> QED
  BY <1>11

LEMMA TicketsHold == Spec => []TicketInv
<1>1. Init => \E f, g : Ticketed(f, g)
  <2> SUFFICES ASSUME Init
               PROVE  \E f, g : Ticketed(f, g)
    OBVIOUS
  <2> PICK f, g : f = [s \in States |-> 0] /\ g = [r \in Requests |-> 0]
    OBVIOUS
  <2>1. Ticketed(f, g)
    BY IdleFacts DEF Init, Ticketed, StatesPaid, RequestsPaid, OneEach
  <2> QED
    BY <2>1
<1>2. SignInInv /\ (\E f, g : Ticketed(f, g)) /\ [Next]_vars =>
         (\E f, g : Ticketed(f, g))'
  <2> SUFFICES ASSUME SignInInv, [Next]_vars, NEW f, NEW g, Ticketed(f, g)
               PROVE  (\E k, h : Ticketed(k, h))'
    OBVIOUS
  <2>1. CASE Restart
    <3>1. /\ \A s \in States : pending'[s] = Absent
          /\ \A r \in Requests : req'[r].pc # "create"
      BY <2>1, IdleFacts DEF Restart
    <3>2. Ticketed(f, g)'
      BY <3>1 DEF Ticketed, StatesPaid, RequestsPaid, OneEach
    <3> QED
      BY <3>2
  <2>2. ASSUME NEW r \in Requests, Admitted(r)
        PROVE  (\E k, h : Ticketed(k, h))'
    BY <2>2, AdmittedTicket
  <2>3. ASSUME NEW r \in Requests, CreateState(r)
        PROVE  (\E k, h : Ticketed(k, h))'
    BY <2>3, CreatedTicket
  <2> QED
    BY <2>1, <2>2, <2>3, OtherTickets DEF Next, Begin
<1> QED
  BY <1>1, <1>2, SignInHolds, PTL DEF Spec, TicketInv

----------------------------------------------------------------------------
(* What the invariants say *)

\* However many callbacks race for a login state, and whatever fails or
\* restarts, it pays for one session at most.
THEOREM OneSession == Spec => []OneSessionPerState
<1>1. SignInInv => OneSessionPerState
  BY DEF SignInInv, Once
<1> QED
  BY <1>1, SignInHolds, PTL

\* Every session was opened with a state that was in time, and is of the user
\* its Google account is linked to, who was ACTIVE meanwhile.
THEOREM EverySessionEarned == Spec => []SessionsEarned
<1>1. SignInInv => SessionsEarned
  BY DEF SignInInv, SessionsEarned, Earned
<1> QED
  BY <1>1, SignInHolds, PTL

\* Only enabling its user brings a session back that no longer works.
THEOREM NothingRevives == Spec => NoRevival
<1>1. ASSUME SignInInv, [Next]_vars, NEW i \in DOMAIN sessions,
             ~Authenticated(i), Authenticated(i)'
      PROVE  sessions[i].user \in active' \ active
  <2>1. /\ sessions[i] \in Session
        /\ sessions[i].expires \in Int /\ now \in Int /\ now' \in Int /\ now <= now'
    BY <1>1, Known DEF Session
  <2>2. /\ sessions'[i].user = sessions[i].user
        /\ sessions'[i].expires = sessions[i].expires
        /\ sessions[i].revoked => sessions'[i].revoked
    <3>1. CASE sessions' = sessions
      BY <3>1
    <3>2. CASE Logout
      BY <1>1, <2>1, <3>2, Known DEF Logout, Session
    <3>3. ASSUME NEW r \in Requests, CreateSession(r)
          PROVE  sessions'[i] = sessions[i]
      BY <1>1, <3>3, Known DEF CreateSession, Insert
    <3> QED
      BY <1>1, <3>1, <3>2, <3>3
      DEF Next, Begin, Login, Admitted, TooMany, CreateState, RefuseReturn,
          Callback, Redeem, RefuseState, Vouched, GiveUp, Resolve, FirstLogin,
          Link, SetStatus, Restart, Tick, vars
  <2> QED
    BY <1>1, <2>1, <2>2 DEF Authenticated
<1>2. SignInInv /\ [Next]_vars =>
         [\A i \in DOMAIN sessions :
            ~Authenticated(i) /\ Authenticated(i)' =>
                sessions[i].user \in active' \ active]_vars
  BY <1>1
<1> QED
  BY <1>2, SignInHolds, PTL DEF Spec, NoRevival

\* The numbers from m up to, not including, m + k are k.
LEMMA IntervalSize ==
    ASSUME NEW m \in Nat, NEW k \in Nat
    PROVE  IsFiniteSet(m..(m + k - 1)) /\ Cardinality(m..(m + k - 1)) = k
<1>1. m \in Int /\ m + k - 1 \in Int
  OBVIOUS
<1>2. /\ IsFiniteSet(m..(m + k - 1))
      /\ Cardinality(m..(m + k - 1)) =
            IF m > m + k - 1 THEN 0 ELSE (m + k - 1) - m + 1
  BY <1>1, FS_Interval
<1>3. IF m > m + k - 1 THEN k = 0 ELSE (m + k - 1) - m + 1 = k
  OBVIOUS
<1> QED
  BY <1>2, <1>3

\* Two requests a lifetime and more apart: what the first paid for is out of
\* date when what the second paid for is made.
LEMMA OutOfDate ==
    ASSUME NEW a \in Int, NEW b \in Int, NEW t \in Int, NEW w \in Int,
           NEW e \in Int, NEW d \in Int, NEW x \in Int, NEW y \in Int,
           NEW n \in Int,
           a + w + d <= b, b + t <= y, y <= n + t,
           n <= x, x <= a + e + t
    PROVE  w + d <= e + t
  OBVIOUS

\* The quotient of the lifetime by what Max requests take.
LEMMA Quotient ==
    ASSUME NEW t \in Nat, NEW w \in Nat, w > 0
    PROVE  t \div w \in Nat /\ t < (t \div w) * w + w
  OBVIOUS

\* The tickets of two states that are good lie less than k apart.
LEMMA TicketsClose ==
    ASSUME SignInInv, NEW f, NEW g, Ticketed(f, g), NEW q \in Nat,
           q = StateTTL \div (Window - MaxDelay),
           NEW s \in States, NEW t \in States, Valid(s), Valid(t)
    PROVE  f[t] < f[s] + Max * (q + 1)
<1>0. /\ Limiter!Sane /\ LimiterInv /\ Max \in Nat
      /\ Window \in Int /\ MaxDelay \in Int /\ StateTTL \in Nat /\ now \in Int
      /\ pending[s] \in Int /\ pending[t] \in Int
      /\ pending[s] # Absent /\ pending[t] # Absent
  BY SignInAssumption, LimiterTypes
  DEF SignInInv, TypeOK, Limiter!Sane, Valid, Absent
<1>1. f[s] \in 1..Len(log) /\ f[t] \in 1..Len(log)
  BY <1>0 DEF Ticketed, StatesPaid
<1> SUFFICES ASSUME ~(f[t] < f[s] + Max * (q + 1))
             PROVE  FALSE
  OBVIOUS
<1> PICK d \in Int : d = q * (Window - MaxDelay)
  BY <1>0
<1>2. f[s] + Max * (q + 1) <= f[t]
  <2> PICK k \in Int : k = Max * (q + 1)
    BY <1>0
  <2>1. ~(f[t] < f[s] + k) /\ f[s] \in Int /\ f[t] \in Int
    BY <1>1
  <2>2. f[s] + k <= f[t]
    BY <2>1
  <2> QED
    BY <2>2
<1>3. log[f[s]].stamp + Window + d <= log[f[t]].at
  BY <1>0, <1>1, <1>2, FarApart
<1>4. log[f[s]].stamp \in Int /\ log[f[t]].at \in Int
  BY <1>0, <1>1, HitValues DEF LimiterInv
<1>5. /\ log[f[t]].at + StateTTL <= pending[t] /\ pending[t] <= now + StateTTL
      /\ now <= pending[s] /\ pending[s] <= log[f[s]].stamp + MaxDelay + StateTTL
  BY <1>0 DEF Ticketed, StatesPaid, Valid, SignInInv, StoreSound
<1>6. Window + d <= MaxDelay + StateTTL
  BY <1>0, <1>3, <1>4, <1>5, OutOfDate
<1>7. StateTTL < d + (Window - MaxDelay)
  <2> PICK w \in Nat : w = Window - MaxDelay /\ w > 0
    BY <1>0, SignInAssumption
  <2> QED
    BY <1>0, Quotient
<1> QED
  BY <1>0, <1>6, <1>7

LEMMA FewArePending ==
    ASSUME SignInInv, NEW f, NEW g, Ticketed(f, g)
    PROVE  FewPending
<1> DEFINE Good == {s \in States : Valid(s)}
<1> PICK q : q = StateTTL \div (Window - MaxDelay)
  OBVIOUS
<1>0. /\ q \in Nat /\ Max \in Nat
  <2> PICK w \in Nat : w = Window - MaxDelay /\ w > 0
    BY SignInAssumption DEF Limiter!Sane
  <2> QED
    BY SignInAssumption, Quotient DEF Limiter!Sane
<1> PICK k \in Nat : k = Max * (q + 1)
  BY <1>0
<1> SUFFICES IsFiniteSet(Good) /\ Cardinality(Good) <= k
  BY DEF FewPending
<1>1. CASE Good = {}
  BY <1>1, FS_EmptySet
<1>2. CASE Good # {}
  <2>1. \A s \in Good : f[s] \in Nat
    BY DEF Ticketed
  <2> DEFINE T == {f[s] : s \in Good}
  <2>2. T \in SUBSET Nat /\ T # {}
    BY <1>2, <2>1
  <2> HIDE DEF Good
  <2>3. PICK m \in T : \A n \in T : m <= n
    <3> HIDE DEF T
    <3> QED
      BY <2>2, LeastNat
  <2>4. m \in Nat
    BY <2>2, <2>3
  <2>5. ASSUME NEW t \in Good
        PROVE  f[t] \in m..(m + k - 1)
    <3>1. PICK s \in Good : m = f[s]
      BY <2>3
    <3>2. f[t] < m + k
      BY <3>1, TicketsClose, <1>0 DEF Good
    <3>3. m <= f[t] /\ f[t] \in Nat
      BY <2>1, <2>3
    <3> QED
      BY <2>4, <3>2, <3>3
  <2> PICK G : G = [s \in Good |-> f[s]]
    OBVIOUS
  <2>6. G \in Injection(Good, m..(m + k - 1))
    <3>1. G \in [Good -> m..(m + k - 1)]
      BY <2>5
    <3>2. \A s, t \in Good : G[s] = G[t] => s = t
      BY DEF Ticketed, OneEach, Good, Valid
    <3> QED
      BY <3>1, <3>2 DEF Injection, IsInjective
  <2>7. IsFiniteSet(Good) /\ Cardinality(Good) <= Cardinality(m..(m + k - 1))
    BY <2>4, <2>6, IntervalSize, FS_Injection
  <2> QED
    BY <2>4, <2>7, IntervalSize
<1> QED
  BY <1>1, <1>2

\* However requests to sign in interleave, wait and race with the restart of
\* the process, the limiter bounds them, its answer is honest, and no more
\* login states are good at once than it lets through in their lifetime.
THEOREM LoginsAreLimited == Spec => []LoginsLimited
<1>1. ASSUME TicketInv
      PROVE  LoginsLimited
  <2>1. Limiter!Sane /\ LimiterInv
    BY <1>1, SignInAssumption DEF TicketInv, SignInInv
  <2>2. Limiter!SpacedOut /\ Limiter!RetryAfterHonest
    BY <2>1, Spacing, HonestAnswer
  <2>3. FewPending
    BY <1>1, FewArePending DEF TicketInv
  <2> QED
    BY <2>2, <2>3 DEF LoginsLimited
<1> QED
  BY <1>1, TicketsHold, PTL

=============================================================================
