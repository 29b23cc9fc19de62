---------------------------- MODULE RateLimiter ----------------------------
(***************************************************************************)
(* SlidingWindowRateLimiter (auth/rate_limiting.py) for one key.  Every     *)
(* protected endpoint has an instance of its own, and the keys of an        *)
(* instance share nothing but the lock, so one key is the whole of it.      *)
(*                                                                         *)
(* check reads the clock before it takes the lock, so callers enter the     *)
(* critical section in another order than that of their time stamps.  The   *)
(* deque _hits[key] is SubSeq(log, first, Len(log)): log is everything       *)
(* ever appended since the process started, first the hits popped, plus 1.  *)
(***************************************************************************)
EXTENDS Integers, Sequences

CONSTANTS
    Callers,      \* requests that are in check at the same time
    Max,          \* max_requests
    Window,       \* window_seconds
    MaxDelay,     \* the longest time between a caller's clock read and its
                  \* turn in the critical section
    MaxTime       \* bound of the clock

\* What __init__ refuses (max_requests < 1, window_seconds <= 0), and time.
Sane ==
    /\ Max \in Nat \ {0}
    /\ Window \in Nat \ {0}
    /\ MaxDelay \in Nat
    /\ MaxTime \in Nat

VARIABLES
    now,          \* time.monotonic()
    stamp,        \* the time each caller read, or NotCalling
    log,          \* hits in the order they were appended
    first,        \* the position in log of hits[0]
    told          \* the last refusal: until when to wait, and Len(log) then

vars == <<now, stamp, log, first, told>>

NotCalling == -1
NeverTold == [until |-> 0, seen |-> -1]
Hit == [stamp : 0..MaxTime, at : 0..MaxTime]

TypeOK ==
    /\ now \in 0..MaxTime
    /\ stamp \in [Callers -> 0..MaxTime \cup {NotCalling}]
    /\ log \in Seq(Hit)
    /\ first \in 1..(Len(log) + 1)
    /\ told.until \in 0..(MaxTime + Window)
    /\ told.seen \in -1..Len(log)

Init ==
    /\ now = 0
    /\ stamp = [c \in Callers |-> NotCalling]
    /\ log = <<>>
    /\ first = 1
    /\ told = NeverTold

----------------------------------------------------------------------------
\* A hit at the edge of the window has left it: hits[0] <= cutoff.
Aged(i, t) == log[i].stamp <= t - Window

\* The while loop of a call stamped t pops exactly the hits before i: it
\* stops at the first one that has not aged, whatever comes after that one.
PopsTo(i, t) ==
    /\ i \in first..(Len(log) + 1)
    /\ \A j \in first..(i - 1) : Aged(j, t)
    /\ i <= Len(log) => ~Aged(i, t)

\* Plausible bug: the limit is tested as if the call were not one more.
MutantLeft(i) == Len(log) - i

\* Hits left when the ones before i are popped.
Left(i) == Len(log) + 1 - i

\* A call stamped t is not refused.
Room(t) == \A i \in first..(Len(log) + 1) : PopsTo(i, t) => Left(i) < Max

----------------------------------------------------------------------------
ReadClock(c) ==
    /\ stamp[c] = NotCalling
    /\ stamp' = [stamp EXCEPT ![c] = now]
    /\ UNCHANGED <<now, log, first, told>>

Admit(c) ==
    /\ stamp[c] # NotCalling
    /\ \E i \in first..(Len(log) + 1) :
        /\ PopsTo(i, stamp[c])
        /\ Left(i) < Max
        /\ first' = i
    /\ log' = Append(log, [stamp |-> stamp[c], at |-> now])
    /\ stamp' = [stamp EXCEPT ![c] = NotCalling]
    /\ UNCHANGED <<now, told>>

\* Not recorded.  The answer is stamp + retry_after, the time at which the
\* oldest hit ages out; the header rounds it up.
Refuse(c) ==
    /\ stamp[c] # NotCalling
    /\ \E i \in first..(Len(log) + 1) :
        /\ PopsTo(i, stamp[c])
        /\ Left(i) >= Max
        /\ first' = i
        /\ told' = [until |-> log[i].stamp + Window, seen |-> Len(log)]
    /\ stamp' = [stamp EXCEPT ![c] = NotCalling]
    /\ UNCHANGED <<now, log>>

Tick ==
    /\ now < MaxTime
    /\ \A c \in Callers : stamp[c] # NotCalling => now - stamp[c] < MaxDelay
    /\ now' = now + 1
    /\ UNCHANGED <<stamp, log, first, told>>

\* The counters are in memory: a restarted process has none.
Restart ==
    /\ stamp' = [c \in Callers |-> NotCalling]
    /\ log' = <<>>
    /\ first' = 1
    /\ told' = NeverTold
    /\ UNCHANGED now

Check(c) == ReadClock(c) \/ Admit(c) \/ Refuse(c)

Next == (\E c \in Callers : Check(c)) \/ Tick \/ Restart

Spec == Init /\ [][Next]_vars

----------------------------------------------------------------------------
\* Between a request and the one admitted Max later lies a whole window, up
\* to the time a caller may be held up before the lock: no window, wherever
\* it starts, sees more than Max requests, though hits arrive out of order
\* and the loop stops at the first young one.
SpacedOut ==
    \A i \in 1..Len(log) :
        i + Max <= Len(log) => log[i + Max].at - log[i].at >= Window - MaxDelay

\* The memory of a key is bounded however often a blocked client retries
\* ("memory per key is bounded by max_requests").
FewHits == Left(first) <= Max

\* Who waits as long as the 429 answer said is let in, unless another request
\* was admitted meanwhile; being refused again in between changes nothing
\* ("does not push its own unblock time further out").
RetryAfterHonest ==
    told.seen = Len(log) /\ now >= told.until => Room(now)

=============================================================================
