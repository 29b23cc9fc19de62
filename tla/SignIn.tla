------------------------------ MODULE SignIn ------------------------------
(***************************************************************************)
(* Signing in with Google (auth/oauth.py, auth/service.py, auth/session.py): *)
(* the login states handed out under a rate limit, the callbacks that       *)
(* redeem them, the link of a Google account to a user, and the sessions.   *)
(*                                                                         *)
(* One browser address, so one key of the login limiter.  The limiters of   *)
(* the other endpoints refuse a request before its handler runs: a refused  *)
(* request is one that was not sent.  A state stands for its random token,  *)
(* and return_to goes with it.  Handlers of different requests interleave   *)
(* at every step, more than the deployed event loop allows; users are       *)
(* disabled and enabled by hand, in the database.                           *)
(***************************************************************************)
EXTENDS Integers, Sequences, FiniteSets

CONSTANTS
    Requests,     \* requests in flight at the same time
    States,       \* login states the store can draw
    Subjects,     \* Google accounts (the sub claim)
    Users,        \* users of Hermes
    StateTTL,     \* seconds a state is valid
    SessionTTL,   \* seconds a session is valid
    Max, Window, MaxDelay, MaxTime,    \* see RateLimiter
    MaxChanges,   \* bound of the users' disablings, enablings and restarts
    MaxSessions,  \* bound of the sessions
    None

VARIABLES
    now, stamp, log, first, told,      \* see RateLimiter
    pending,      \* OAuthStateStore._entries: when each state expires
    issued,       \* the states ever handed out
    req,          \* what each request is doing
    identity,     \* identities: the user of each Google account
    active,       \* the users with status ACTIVE
    sessions,     \* sessions: rows in the order they were inserted
    changes       \* disablings, enablings and restarts so far

limiterVars == <<now, stamp, log, first, told>>
vars == <<now, stamp, log, first, told, pending, issued, req, identity,
          active, sessions, changes>>

Limiter == INSTANCE RateLimiter WITH Callers <- Requests

ASSUME SignInAssumption ==
    /\ Limiter!Sane /\ Window > MaxDelay
    /\ {StateTTL, SessionTTL, MaxChanges, MaxSessions} \subseteq Nat
    /\ None \notin Users

Absent == -1
Idle == [pc |-> "idle", since |-> 0, age |-> 0, state |-> None, sub |-> None,
         user |-> None, seen |-> {}]

\* "since" is the limiter's stamp.  For the properties, "age" is how old the
\* state was when it was redeemed and "seen" collects the users that were
\* ACTIVE at some time since then.
Request == [pc : {"idle", "create", "google", "resolve", "link", "session"},
            since : 0..MaxTime, age : 0..MaxTime, state : States \cup {None},
            sub : Subjects \cup {None}, user : Users \cup {None},
            seen : SUBSET Users]
Session == [user : Users, sub : Subjects, state : States,
            age : 0..MaxTime, expires : 0..(MaxTime + SessionTTL),
            revoked : BOOLEAN, earned : BOOLEAN]

Init ==
    /\ Limiter!Init
    /\ pending = [s \in States |-> Absent]
    /\ issued = {}
    /\ req = [r \in Requests |-> Idle]
    /\ identity = [g \in Subjects |-> None]
    /\ active = Users
    /\ sessions = <<>>
    /\ changes = 0

Goto(r, pc) == req' = [req EXCEPT ![r].pc = pc]
Leave(r) == req' = [req EXCEPT ![r] = Idle]

----------------------------------------------------------------------------
\* GET /auth/google/login: the limiter is a dependency, it runs first.
Login(r) ==
    /\ req[r].pc = "idle"
    /\ Limiter!ReadClock(r)
    /\ UNCHANGED <<pending, issued, req, identity, active, sessions, changes>>

Admitted(r) ==
    /\ Limiter!Admit(r)
    /\ req' = [req EXCEPT ![r].pc = "create", ![r].since = stamp[r]]
    /\ UNCHANGED <<pending, issued, identity, active, sessions, changes>>

TooMany(r) ==
    /\ Limiter!Refuse(r)
    /\ UNCHANGED <<pending, issued, req, identity, active, sessions, changes>>

CreateState(r) ==
    /\ req[r].pc = "create"
    /\ \E s \in States \ issued :
        /\ pending' = [pending EXCEPT ![s] = now + StateTTL]
        /\ issued' = issued \cup {s}
    /\ Leave(r)
    /\ UNCHANGED <<limiterVars, identity, active, sessions, changes>>

\* return_to is not on the allowlist.  The request has been counted.
RefuseReturn(r) ==
    /\ req[r].pc = "create"
    /\ Leave(r)
    /\ UNCHANGED <<limiterVars, pending, issued, identity, active, sessions, changes>>

----------------------------------------------------------------------------
\* Plausible bugs: consume looks the entry up and leaves it; consume does not
\* look at the clock.
MutantTake(s) == pending

MutantValid(s) == pending[s] # Absent

\* consume: the entry is popped whether or not it is still valid, and it is
\* valid up to and including expires_at.
Take(s) == [pending EXCEPT ![s] = Absent]

Valid(s) == pending[s] # Absent /\ now <= pending[s]

\* GET /auth/google/callback.
Redeem(r) ==
    /\ req[r].pc = "idle" /\ stamp[r] = Limiter!NotCalling
    /\ \E s \in issued :
        /\ Valid(s)
        /\ pending' = Take(s)
        /\ req' = [req EXCEPT ![r] =
                    [Idle EXCEPT !.pc = "google", !.state = s, !.seen = active,
                                 !.age = now - (pending[s] - StateTTL)]]
    /\ UNCHANGED <<limiterVars, issued, identity, active, sessions, changes>>

\* 400: the state is unknown, used or out of date.
RefuseState(r) ==
    /\ req[r].pc = "idle" /\ stamp[r] = Limiter!NotCalling
    /\ \E s \in issued :
        /\ ~Valid(s)
        /\ pending' = Take(s)
    /\ UNCHANGED <<limiterVars, issued, req, identity, active, sessions, changes>>

\* The token Google exchanged for the code: an account, and the user whose
\* address is its verified email, if there is one.  An account may report
\* another email than last time.
Vouched(r) ==
    /\ req[r].pc = "google"
    /\ \E g \in Subjects, u \in Users \cup {None} :
        req' = [req EXCEPT ![r].pc = "resolve", ![r].sub = g, ![r].user = u]
    /\ UNCHANGED <<limiterVars, pending, issued, identity, active, sessions, changes>>

\* The user declined, Google did not answer or its token is not valid; or a
\* transaction is lost later on.
GiveUp(r) ==
    /\ req[r].pc \in {"google", "resolve", "link", "session"}
    /\ Leave(r)
    /\ UNCHANGED <<limiterVars, pending, issued, identity, active, sessions, changes>>

----------------------------------------------------------------------------
\* resolve_google_user, the account is known: its user, whatever the email.
KnownAccount(r) ==
    LET u == identity[req[r].sub] IN IF u \in active THEN u ELSE None

Resolve(r) ==
    /\ req[r].pc = "resolve"
    /\ identity[req[r].sub] # None
    /\ IF KnownAccount(r) # None
       THEN req' = [req EXCEPT ![r].pc = "session", ![r].user = KnownAccount(r)]
       ELSE Leave(r)
    /\ UNCHANGED <<limiterVars, pending, issued, identity, active, sessions, changes>>

\* The account is new: a user has to be found by email.
FirstLogin(r) ==
    /\ req[r].pc = "resolve"
    /\ identity[req[r].sub] = None
    /\ IF req[r].user \in active THEN Goto(r, "link") ELSE Leave(r)
    /\ UNCHANGED <<limiterVars, pending, issued, identity, active, sessions, changes>>

\* UNIQUE (provider, provider_subject): the insert of the later of two first
\* logins waits for the earlier one and fails, with status 500.
MayLink(g) == identity[g] = None

Link(r) ==
    /\ req[r].pc = "link"
    /\ IF MayLink(req[r].sub)
       THEN /\ identity' = [identity EXCEPT ![req[r].sub] = req[r].user]
            /\ Goto(r, "session")
       ELSE /\ UNCHANGED identity
            /\ Leave(r)
    /\ UNCHANGED <<limiterVars, pending, issued, active, sessions, changes>>

Row(r) ==
    [user |-> req[r].user, sub |-> req[r].sub, state |-> req[r].state,
     age |-> req[r].age, expires |-> now + SessionTTL,
     revoked |-> FALSE, earned |-> req[r].user \in req[r].seen]

\* Plausible bug: a user who comes back gets the old row, prolonged.
MutantInsert(r) ==
    IF \E i \in DOMAIN sessions : sessions[i].user = req[r].user
    THEN [i \in DOMAIN sessions |->
            IF sessions[i].user = req[r].user THEN Row(r) ELSE sessions[i]]
    ELSE Append(sessions, Row(r))

\* create_session and its commit, a transaction of its own.
Insert(r) == Append(sessions, Row(r))

CreateSession(r) ==
    /\ req[r].pc = "session"
    /\ Len(sessions) < MaxSessions
    /\ sessions' = Insert(r)
    /\ Leave(r)
    /\ UNCHANGED <<limiterVars, pending, issued, identity, active, changes>>

----------------------------------------------------------------------------
\* POST /auth/logout: an expired session, or one of a disabled user, is
\* revoked as well.
Logout ==
    /\ \E i \in DOMAIN sessions :
        /\ ~sessions[i].revoked
        /\ sessions' = [sessions EXCEPT ![i].revoked = TRUE]
    /\ UNCHANGED <<limiterVars, pending, issued, req, identity, active, changes>>

\* get_user_from_session: who holds the token is served.
Authenticated(i) ==
    /\ ~sessions[i].revoked
    /\ sessions[i].expires > now
    /\ sessions[i].user \in active

\* Hermes has no route for it: users.status, set in the database.
SetStatus ==
    /\ changes < MaxChanges
    /\ \E u \in Users :
        \/ u \in active /\ active' = active \ {u} /\ UNCHANGED req
        \/ /\ u \notin active
           /\ active' = active \cup {u}
           /\ req' = [r \in Requests |->
                        IF req[r].pc \in {"google", "resolve", "link", "session"}
                        THEN [req[r] EXCEPT !.seen = @ \cup {u}] ELSE req[r]]
    /\ changes' = changes + 1
    /\ UNCHANGED <<limiterVars, pending, issued, identity, sessions>>

\* The limiter and the states are in memory, the rest is in the database.
Restart ==
    /\ changes < MaxChanges
    /\ Limiter!Restart
    /\ pending' = [s \in States |-> Absent]
    /\ req' = [r \in Requests |-> Idle]
    /\ changes' = changes + 1
    /\ UNCHANGED <<issued, identity, active, sessions>>

\* The login handler does no I/O and ends within MaxDelay of the limiter's
\* clock read; a callback waits for Google and the database as long as it takes.
Tick ==
    /\ \A r \in Requests : req[r].pc = "create" => now - req[r].since < MaxDelay
    /\ Limiter!Tick
    /\ UNCHANGED <<pending, issued, req, identity, active, sessions, changes>>

Begin(r) == Login(r) \/ Admitted(r) \/ TooMany(r) \/ CreateState(r) \/ RefuseReturn(r)

Callback(r) ==
    \/ Redeem(r) \/ RefuseState(r) \/ Vouched(r) \/ GiveUp(r)
    \/ Resolve(r) \/ FirstLogin(r) \/ Link(r) \/ CreateSession(r)

Next ==
    \/ \E r \in Requests : Begin(r) \/ Callback(r)
    \/ Logout \/ SetStatus \/ Restart \/ Tick

Spec == Init /\ [][Next]_vars

----------------------------------------------------------------------------
TypeOK ==
    /\ Limiter!TypeOK
    /\ pending \in [States -> {Absent} \cup 0..(MaxTime + StateTTL)]
    /\ issued \in SUBSET States
    /\ req \in [Requests -> Request]
    /\ identity \in [Subjects -> Users \cup {None}]
    /\ active \in SUBSET Users
    /\ sessions \in Seq(Session)
    /\ changes \in 0..MaxChanges

\* A login state pays for at most one session, however callbacks race and
\* whatever fails or restarts between redeeming it and the session's commit.
OneSessionPerState ==
    \A i, j \in DOMAIN sessions :
        sessions[i].state = sessions[j].state => i = j

\* Behind every session is a state redeemed within its lifetime, by a Google
\* account that is linked to the session's user, who was ACTIVE at some time
\* since the callback began.  (Well-typed sessions, in a well-typed state.)
SessionsEarned ==
    /\ TypeOK
    /\ \A i \in DOMAIN sessions :
        /\ sessions[i].age <= StateTTL
        /\ identity[sessions[i].sub] = sessions[i].user
        /\ sessions[i].earned

\* A session that has stopped working works again only when its user is
\* enabled again: no later login brings back one that was revoked or expired.
NoRevival ==
    [][\A i \in DOMAIN sessions :
        ~Authenticated(i) /\ Authenticated(i)' =>
            sessions[i].user \in active' \ active]_vars

\* The states a client holds that are still good are bounded by what the
\* limiter lets through within their lifetime.  (Out-of-date ones are popped
\* only when they are presented: abandoned logins are never removed.)
FewPending ==
    Cardinality({s \in States : Valid(s)})
        <= Max * ((StateTTL \div (Window - MaxDelay)) + 1)

\* The limiter does for signing in what it promises: no window sees more than
\* Max logins, give or take the time a request may be held up; who waits as
\* long as a refusal said is let in; and so few login states are good at once.
LoginsLimited == Limiter!SpacedOut /\ Limiter!RetryAfterHonest /\ FewPending

=============================================================================
