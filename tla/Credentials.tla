---------------------------- MODULE Credentials ----------------------------
(***************************************************************************)
(* A user's own Binance key: connecting it (PUT) and disconnecting it       *)
(* (DELETE), with the locks of the database and the event loop.             *)
(*                                                                         *)
(* PUT runs connect_credentials in a worker thread and comes back to the    *)
(* loop to commit; DELETE runs on the loop from beginning to end.  The row  *)
(* (or its entry in the unique index on user_id) is locked from the flush   *)
(* to the commit.                                                          *)
(***************************************************************************)
EXTENDS Naturals

CONSTANTS
    Puts,         \* requests to connect, each sent once
    Deletes,      \* requests to disconnect
    Keys,         \* API keys, each with its secret; no two end alike
    MaxRestarts,  \* bound of the restarts
    None

ASSUME RequestsApart ==
    Puts \cap Deletes = {} /\ None \notin Puts \cup Deletes \cup Keys

VARIABLES
    row,          \* user_binance_credentials: the user's row, committed
    lock,         \* whose transaction has it locked
    loop,         \* whose handler the event loop is executing
    req,          \* what each request is doing
    inserts,      \* rows inserted so far
    promised,     \* the key the last answer said is connected
    restarts

vars == <<row, lock, loop, req, inserts, promised, restarts>>

Requests == Puts \cup Deletes

\* can_withdraw as Binance reports it: the client hands on a missing flag.
Permissions == {"no", "yes", "missing"}

\* key is both ciphertexts: tokens never repeat, so an UPDATE always writes
\* them.  label is api_key_last4, named after its key.  For the properties,
\* verdict is what Binance said of the key, and stale whether the row had
\* changed between the load and the flush of the request that wrote it.
Row == [id : Nat \ {0}, key : Keys, label : Keys,
        verdict : Permissions, stale : BOOLEAN]
NoRow == [id |-> 0, key |-> None, label |-> None, verdict |-> "missing",
          stale |-> FALSE]

New == [pc |-> "new", key |-> None, verdict |-> "missing", base |-> NoRow]
Done == [New EXCEPT !.pc = "done"]
Request == [pc : {"new", "verify", "load", "flush", "commit", "done"},
            key : Keys \cup {None}, verdict : Permissions,
            base : Row \cup {NoRow}]

Init ==
    /\ row = NoRow
    /\ lock = None
    /\ loop = None
    /\ req = [r \in Requests |-> New]
    /\ inserts = 0
    /\ promised = None
    /\ restarts = 0

Goto(r, pc) == req' = [req EXCEPT ![r].pc = pc]

----------------------------------------------------------------------------
(* PUT /settings/binance-credentials *)

Submit(p) ==
    /\ req[p].pc = "new"
    /\ loop = None
    /\ \E k \in Keys :
        req' = [req EXCEPT ![p].pc = "verify", ![p].key = k]
    /\ UNCHANGED <<row, lock, loop, inserts, promised, restarts>>

\* Plausible bug: only a flag that is there and true refuses a key.
MutantSafe(verdict) == verdict # "yes"

\* can_withdraw "is not False" refuses.
Safe(verdict) == verdict = "no"

Verify(p) ==
    /\ req[p].pc = "verify"
    /\ \E v \in Permissions :
        IF Safe(v)
        THEN req' = [req EXCEPT ![p].pc = "load", ![p].verdict = v]
        ELSE req' = [req EXCEPT ![p] = Done]
    /\ UNCHANGED <<row, lock, loop, inserts, promised, restarts>>

\* Binance rejects the key or is not reached, or the encryption key is missing.
Refuse(p) ==
    /\ req[p].pc \in {"verify", "load"}
    /\ req' = [req EXCEPT ![p] = Done]
    /\ UNCHANGED <<row, lock, loop, inserts, promised, restarts>>

Load(p) ==
    /\ req[p].pc = "load"
    /\ req' = [req EXCEPT ![p].pc = "flush", ![p].base = row]
    /\ UNCHANGED <<row, lock, loop, inserts, promised, restarts>>

\* The statement flush sends, when it gets the lock, finds what it expects: an
\* UPDATE by id its row, an INSERT no row.  Otherwise a StaleDataError or an
\* IntegrityError ends the request with status 500.
Matches(p) == req[p].base.id = row.id

\* Plausible bug: the error leaves the transaction open.
MutantFlush(p) ==
    /\ req[p].pc = "flush"
    /\ lock = None
    /\ lock' = p
    /\ IF Matches(p) THEN Goto(p, "commit") ELSE req' = [req EXCEPT ![p] = Done]
    /\ UNCHANGED <<row, loop, inserts, promised, restarts>>

Flush(p) ==
    /\ req[p].pc = "flush"
    /\ lock = None
    /\ IF Matches(p)
       THEN lock' = p /\ Goto(p, "commit")
       ELSE lock' = lock /\ req' = [req EXCEPT ![p] = Done]
    /\ UNCHANGED <<row, loop, inserts, promised, restarts>>

\* Plausible bugs: a column is written when it differs from what was loaded,
\* the key as well; the label is only written with the row.
MutantUpdated(p) ==
    [row EXCEPT !.key = IF req[p].key # req[p].base.key THEN req[p].key ELSE @,
                !.label = IF req[p].key # req[p].base.label THEN req[p].key ELSE @,
                !.verdict = req[p].verdict, !.stale = req[p].base # row]

MutantUpdatedLabel(p) ==
    [row EXCEPT !.key = req[p].key, !.verdict = req[p].verdict,
                !.stale = req[p].base # row]

\* What the row is after the UPDATE: the label is left out of it when it equals
\* the one that was loaded.
Updated(p) ==
    [row EXCEPT !.key = req[p].key,
                !.label = IF req[p].key # req[p].base.label THEN req[p].key ELSE @,
                !.verdict = req[p].verdict, !.stale = req[p].base # row]

Inserted(p) ==
    [id |-> inserts + 1, key |-> req[p].key, label |-> req[p].key,
     verdict |-> req[p].verdict, stale |-> FALSE]

\* Back on the loop.
Commit(p) ==
    /\ req[p].pc = "commit"
    /\ loop = None
    /\ IF req[p].base = NoRow
       THEN row' = Inserted(p) /\ inserts' = inserts + 1
       ELSE row' = Updated(p) /\ inserts' = inserts
    /\ promised' = req[p].key
    /\ lock' = None
    /\ req' = [req EXCEPT ![p] = Done]
    /\ UNCHANGED <<loop, restarts>>

\* The connection is lost: the transaction rolls back, with status 500.
Lose(p) ==
    /\ req[p].pc = "commit"
    /\ loop = None
    /\ lock' = None
    /\ req' = [req EXCEPT ![p] = Done]
    /\ UNCHANGED <<row, loop, inserts, promised, restarts>>

----------------------------------------------------------------------------
(* DELETE /settings/binance-credentials *)

\* The SELECT; the handler keeps the loop until it has committed.
Disconnect(d) ==
    /\ req[d].pc = "new"
    /\ loop = None
    /\ IF row = NoRow
       THEN /\ req' = [req EXCEPT ![d] = Done]
            /\ promised' = None
            /\ UNCHANGED loop
       ELSE /\ req' = [req EXCEPT ![d].pc = "flush", ![d].base = row]
            /\ loop' = d
            /\ UNCHANGED promised
    /\ UNCHANGED <<row, lock, inserts, restarts>>

\* The DELETE statement waits for the lock, on the loop.
Remove(d) ==
    /\ req[d].pc = "flush"
    /\ lock = None
    /\ lock' = d
    /\ Goto(d, "commit")
    /\ UNCHANGED <<row, loop, inserts, promised, restarts>>

\* A row of another id is not matched, which deletes nothing and only warns.
CommitRemoval(d) ==
    /\ req[d].pc = "commit"
    /\ row' = IF row.id = req[d].base.id THEN NoRow ELSE row
    /\ promised' = None
    /\ lock' = None
    /\ loop' = None
    /\ req' = [req EXCEPT ![d] = Done]
    /\ UNCHANGED <<inserts, restarts>>

----------------------------------------------------------------------------
\* Every transaction in flight is rolled back.
Restart ==
    /\ restarts < MaxRestarts
    /\ restarts' = restarts + 1
    /\ lock' = None
    /\ loop' = None
    /\ req' = [r \in Requests |-> IF req[r].pc = "new" THEN New ELSE Done]
    /\ UNCHANGED <<row, inserts, promised>>

Connecting(p) ==
    \/ Verify(p) \/ Refuse(p) \/ Load(p) \/ Flush(p) \/ Commit(p) \/ Lose(p)

Disconnecting(d) == Remove(d) \/ CommitRemoval(d)

Next ==
    \/ \E p \in Puts : Submit(p) \/ Connecting(p)
    \/ \E d \in Deletes : Disconnect(d) \/ Disconnecting(d)
    \/ Restart

Spec == Init /\ [][Next]_vars

\* Binance and the database answer, and a free loop resumes what is ready.
FairSpec ==
    /\ Spec
    /\ \A p \in Puts : WF_vars(Connecting(p))
    /\ \A d \in Deletes : WF_vars(Disconnecting(d))

----------------------------------------------------------------------------
TypeOK ==
    /\ row \in Row \cup {NoRow}
    /\ lock \in Requests \cup {None}
    /\ loop \in Deletes \cup {None}
    /\ req \in [Requests -> Request]
    /\ inserts \in Nat
    /\ promised \in Keys \cup {None}
    /\ restarts \in 0..MaxRestarts

\* A stored key is one Binance has said cannot withdraw, whatever was written
\* over what ("Verify-before-persist").
StoredIsSafe == row # NoRow => row.verdict = "no"

\* The user's last answer is the truth: after "connected" the key of that
\* request is the one stored, after "connected: false" none is, though the
\* requests overlap, lose their row to each other or are lost.
PromisesKept == row.key = promised

\* The four characters shown are those of the stored key, unless a request
\* wrote it over a row that another one had changed since it was loaded.
LabelsExplained == row.label # row.key => row.stale

\* A handler on the loop waits for a lock that only the loop can release.
LoopStuck ==
    \E d \in Deletes, p \in Puts :
        loop = d /\ req[d].pc = "flush" /\ lock = p

\* Every request ends, unless the loop is stuck; nothing else can hang.
HandlersFinish ==
    \A r \in Requests :
        req[r].pc \notin {"new", "done"} ~> req[r].pc = "done" \/ LoopStuck

\* The event loop keeps dispatching other requests while one of them waits.
LoopKeepsDispatching == []<>(loop = None)

=============================================================================
