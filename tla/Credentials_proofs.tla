------------------------- MODULE Credentials_proofs -------------------------
(***************************************************************************)
(* Credentials for any number of requests and keys: its types and the three *)
(* promises about the stored key.                                          *)
(*                                                                         *)
(* They need two facts about requests under way: past the verification the  *)
(* verdict is "no" (Verified), and while a DELETE is on the loop the row it *)
(* loaded stays (RowKept), because only the loop commits.                   *)
(***************************************************************************)
EXTENDS Credentials, TLAPS

Verified ==
    \A p \in Puts :
        req[p].pc \in {"load", "flush", "commit"} => req[p].verdict = "no"

\* What a PUT under way was asked to store.
Asked ==
    \A p \in Puts :
        req[p].pc \notin {"new", "done"} => req[p].key \in Keys

RowKept ==
    \A d \in Deletes :
        req[d].pc \notin {"new", "done"} => loop = d /\ row.id = req[d].base.id

\* A PUT about to commit an UPDATE has a row to update.
RowFound ==
    \A p \in Puts :
        req[p].pc = "commit" /\ req[p].base # NoRow => row # NoRow

LockHeld ==
    \A r \in Requests : req[r].pc = "commit" => lock = r

IInv ==
    /\ TypeOK /\ StoredIsSafe /\ PromisesKept /\ LabelsExplained
    /\ Verified /\ Asked /\ RowKept /\ RowFound /\ LockHeld

----------------------------------------------------------------------------
\* A row and the absence of one are told apart by the id.
LEMMA RowsHaveIds ==
    ASSUME NEW x \in Row \cup {NoRow}
    PROVE  x.id = 0 <=> x = NoRow
  BY DEF Row, NoRow

\* Nothing is stored and nothing promised when the system is set up.
LEMMA InitHolds == ASSUME MaxRestarts \in Nat PROVE Init => IInv
  BY DEF Init, IInv, TypeOK, StoredIsSafe, PromisesKept, LabelsExplained,
         Verified, Asked, RowKept, RowFound, LockHeld, New, NoRow, Request,
         Requests, Permissions

\* A request that only moves on, with the row, the loop and the lock as they
\* were, keeps the invariant when it keeps its own part of it.
LEMMA PutMoves ==
    ASSUME IInv, NEW p \in Puts, NEW q \in Request,
           req' = [req EXCEPT ![p] = q],
           UNCHANGED <<row, lock, loop, inserts, promised, restarts>>,
           q.pc # "commit",
           q.pc \in {"load", "flush"} => q.verdict = "no",
           q.pc \notin {"new", "done"} => q.key \in Keys
    PROVE  IInv'
  <1>1. p \in Requests /\ p \notin Deletes
    BY RequestsApart DEF Requests
  <1>2. TypeOK'
    BY <1>1 DEF IInv, TypeOK
  <1>3. StoredIsSafe' /\ PromisesKept' /\ LabelsExplained'
    BY DEF IInv, StoredIsSafe, PromisesKept, LabelsExplained
  <1>4. Verified' /\ Asked' /\ RowFound'
    BY <1>1 DEF IInv, TypeOK, Verified, Asked, RowFound
  <1>5. RowKept' /\ LockHeld'
    BY <1>1 DEF IInv, TypeOK, RowKept, LockHeld, Requests
  <1> QED BY <1>2, <1>3, <1>4, <1>5 DEF IInv

\* Done requests are not bound by anything.
LEMMA DoneIsRequest == Done \in Request /\ Done.pc = "done" /\ New \in Request
  BY DEF Done, New, Request, NoRow, Permissions

LEMMA FlushKeeps == ASSUME IInv, NEW p \in Puts, Flush(p) PROVE IInv'
  <1>1. p \in Requests /\ p \notin Deletes /\ req[p] \in Request
    BY RequestsApart DEF Requests, IInv, TypeOK
  <1>2. CASE ~Matches(p)
    BY <1>2, PutMoves, DoneIsRequest DEF Flush
  <1>3. CASE Matches(p)
    <2>1. /\ req' = [req EXCEPT ![p].pc = "commit"] /\ lock' = p /\ lock = None
          /\ req[p].pc = "flush"
          /\ UNCHANGED <<row, loop, inserts, promised, restarts>>
      BY <1>3 DEF Flush, Goto
    <2> DEFINE q == [req[p] EXCEPT !.pc = "commit"]
    <2>2. req' = [req EXCEPT ![p] = q] /\ q \in Request
      BY <1>1, <2>1 DEF IInv, TypeOK, Request
    <2>3. TypeOK'
      BY <1>1, <2>1, <2>2 DEF IInv, TypeOK
    <2>4. StoredIsSafe' /\ PromisesKept' /\ LabelsExplained'
      BY <2>1 DEF IInv, StoredIsSafe, PromisesKept, LabelsExplained
    <2>5. Verified' /\ Asked'
      BY <1>1, <2>1, <2>2 DEF IInv, TypeOK, Request, Verified, Asked
    <2>6. RowKept'
      BY <1>1, <2>1, <2>2 DEF IInv, TypeOK, RowKept, Requests
    <2>7. RowFound'
      <3>1. req[p].base # NoRow => row # NoRow
        BY <1>1, <1>3, RowsHaveIds DEF Matches, IInv, TypeOK, Request
      <3> QED BY <3>1, <1>1, <2>1, <2>2 DEF IInv, TypeOK, Request, RowFound
    <2>8. LockHeld'
      <3>1. \A r \in Requests : req[r].pc # "commit"
        BY <2>1, RequestsApart DEF IInv, LockHeld, Requests
      <3> QED BY <3>1, <1>1, <2>1, <2>2 DEF IInv, TypeOK, LockHeld
    <2> QED BY <2>3, <2>4, <2>5, <2>6, <2>7, <2>8 DEF IInv
  <1> QED BY <1>2, <1>3

\* The commit of a PUT: what the row becomes is safe, promised and labelled.
LEMMA CommitKeeps == ASSUME IInv, NEW p \in Puts, Commit(p) PROVE IInv'
  <1>1. p \in Requests /\ p \notin Deletes /\ req[p] \in Request
    BY RequestsApart DEF Requests, IInv, TypeOK
  <1>2. /\ req[p].pc = "commit" /\ loop = None
        /\ promised' = req[p].key /\ lock' = None
        /\ req' = [req EXCEPT ![p] = Done]
        /\ UNCHANGED <<loop, restarts>>
    BY DEF Commit
  <1>3. req[p].key \in Keys /\ req[p].verdict = "no" /\ lock = p
    BY <1>1, <1>2 DEF IInv, Asked, Verified, LockHeld
  <1>4. /\ row' \in Row /\ row'.key = req[p].key /\ row'.verdict = "no"
        /\ row'.label # row'.key => row'.stale
        /\ inserts' \in Nat
    <2>1. CASE req[p].base = NoRow
      <3>1. row' = Inserted(p) /\ inserts' = inserts + 1 /\ inserts \in Nat
        BY <2>1 DEF Commit, IInv, TypeOK
      <3>2. inserts + 1 \in Nat \ {0} /\ "no" \in Permissions
        BY <3>1 DEF Permissions
      <3>3. row' \in Row
        BY <3>1, <3>2, <1>3 DEF Inserted, Row
      <3> QED BY <3>1, <3>2, <3>3, <1>3 DEF Inserted
    <2>2. CASE req[p].base # NoRow
      <3>1. row \in Row
        BY <2>2, <1>1, <1>2 DEF IInv, TypeOK, RowFound
      <3>2. row' = Updated(p) /\ inserts' = inserts
        BY <2>2 DEF Commit
      <3>3. row' \in Row /\ row'.key = req[p].key /\ row'.verdict = "no"
        BY <3>1, <3>2, <1>1, <1>3 DEF Updated, Row, Request
      <3>4. row'.label # row'.key => row'.stale
        BY <3>1, <3>2, <1>1, <1>3 DEF Updated, Row
      <3> QED BY <3>2, <3>3, <3>4 DEF IInv, TypeOK
    <2> QED BY <2>1, <2>2
  <1>5. TypeOK'
    BY <1>1, <1>2, <1>3, <1>4, DoneIsRequest DEF IInv, TypeOK
  <1>6. StoredIsSafe' /\ PromisesKept' /\ LabelsExplained'
    BY <1>2, <1>4 DEF StoredIsSafe, PromisesKept, LabelsExplained
  <1>7. Verified' /\ Asked'
    BY <1>1, <1>2, DoneIsRequest DEF IInv, TypeOK, Verified, Asked
  <1>8. RowKept'
    <2>1. \A d \in Deletes : req[d].pc \in {"new", "done"}
      BY <1>2, RequestsApart DEF IInv, RowKept
    <2> QED BY <2>1, <1>1, <1>2, DoneIsRequest DEF IInv, TypeOK, RowKept, Requests
  <1>9. RowFound'
    <2>1. row' # NoRow
      BY <1>3, <1>4, RequestsApart DEF NoRow
    <2> QED BY <2>1 DEF RowFound
  <1>10. LockHeld'
    <2>1. \A r \in Requests : r # p => req[r].pc # "commit"
      BY <1>1, <1>3 DEF IInv, LockHeld
    <2> QED BY <2>1, <1>1, <1>2, DoneIsRequest DEF IInv, TypeOK, LockHeld
  <1> QED BY <1>5, <1>6, <1>7, <1>8, <1>9, <1>10 DEF IInv

\* The other steps of a PUT.
LEMMA PutKeeps ==
    ASSUME IInv, NEW p \in Puts, Submit(p) \/ Connecting(p)
    PROVE  IInv'
  <1>1. p \in Requests /\ p \notin Deletes /\ req[p] \in Request
        /\ req \in [Requests -> Request] /\ row \in Row \cup {NoRow}
    BY RequestsApart DEF Requests, IInv, TypeOK
  <1>2. CASE Submit(p)
    <2>1. PICK k \in Keys : req' = [req EXCEPT ![p].pc = "verify", ![p].key = k]
      BY <1>2 DEF Submit
    <2> DEFINE q == [req[p] EXCEPT !.pc = "verify", !.key = k]
    <2>2. req' = [req EXCEPT ![p] = q] /\ q \in Request
          /\ q.pc = "verify" /\ q.key \in Keys
      BY <1>1, <2>1 DEF Request
    <2>3. UNCHANGED <<row, lock, loop, inserts, promised, restarts>>
      BY <1>2 DEF Submit
    <2> HIDE DEF q
    <2> QED BY <2>2, <2>3, PutMoves
  <1>3. CASE Verify(p)
    <2>0. req[p].pc = "verify" /\ req[p].key \in Keys
      BY <1>3, <1>1 DEF Verify, IInv, Asked
    <2>1. PICK v \in Permissions :
            IF Safe(v)
            THEN req' = [req EXCEPT ![p].pc = "load", ![p].verdict = v]
            ELSE req' = [req EXCEPT ![p] = Done]
      BY <1>3 DEF Verify
    <2>2. UNCHANGED <<row, lock, loop, inserts, promised, restarts>>
      BY <1>3 DEF Verify
    <2>3. CASE Safe(v)
      <3> DEFINE q == [req[p] EXCEPT !.pc = "load", !.verdict = v]
      <3>1. req' = [req EXCEPT ![p] = q] /\ q \in Request
            /\ q.pc = "load" /\ q.key \in Keys /\ q.verdict = "no"
        BY <1>1, <2>0, <2>1, <2>3 DEF Request, Safe
      <3> HIDE DEF q
      <3> QED BY <3>1, <2>2, PutMoves
    <2>4. CASE ~Safe(v)
      BY <2>1, <2>2, <2>4, PutMoves, DoneIsRequest
    <2> QED BY <2>3, <2>4
  <1>4. CASE Refuse(p)
    BY <1>4, PutMoves, DoneIsRequest DEF Refuse
  <1>5. CASE Load(p)
    <2> DEFINE q == [req[p] EXCEPT !.pc = "flush", !.base = row]
    <2>1. req[p].key \in Keys /\ req[p].verdict = "no"
      BY <1>5, <1>1 DEF Load, IInv, Asked, Verified
    <2>2. req' = [req EXCEPT ![p] = q] /\ q \in Request
          /\ q.pc = "flush" /\ q.key \in Keys /\ q.verdict = "no"
      BY <1>1, <1>5, <2>1 DEF Load, Request
    <2>3. UNCHANGED <<row, lock, loop, inserts, promised, restarts>>
      BY <1>5 DEF Load
    <2> HIDE DEF q
    <2> QED BY <2>2, <2>3, PutMoves
  <1>6. CASE Lose(p)
    <2>1. /\ req' = [req EXCEPT ![p] = Done] /\ lock' = None /\ lock = p
          /\ UNCHANGED <<row, loop, inserts, promised, restarts>>
      BY <1>6, <1>1 DEF Lose, IInv, LockHeld
    <2>2. TypeOK' /\ StoredIsSafe' /\ PromisesKept' /\ LabelsExplained'
      BY <2>1, <1>1, DoneIsRequest
         DEF IInv, TypeOK, StoredIsSafe, PromisesKept, LabelsExplained
    <2>3. Verified' /\ Asked' /\ RowFound'
      BY <2>1, <1>1, DoneIsRequest DEF IInv, TypeOK, Verified, Asked, RowFound
    <2>4. RowKept' /\ LockHeld'
      BY <2>1, <1>1, DoneIsRequest DEF IInv, TypeOK, RowKept, LockHeld, Requests
    <2> QED BY <2>2, <2>3, <2>4 DEF IInv
  <1> QED
    BY <1>2, <1>3, <1>4, <1>5, <1>6, FlushKeeps, CommitKeeps DEF Connecting

\* The steps of a DELETE.
LEMMA DeleteKeeps ==
    ASSUME IInv, NEW d \in Deletes, Disconnect(d) \/ Disconnecting(d)
    PROVE  IInv'
  <1>1. d \in Requests /\ d \notin Puts /\ req[d] \in Request
        /\ req \in [Requests -> Request] /\ row \in Row \cup {NoRow}
        /\ d # None
    BY RequestsApart DEF Requests, IInv, TypeOK
  <1>2. CASE Disconnect(d)
    <2>0. /\ UNCHANGED <<row, lock, inserts, restarts>> /\ loop = None
          /\ \A e \in Deletes : req[e].pc \in {"new", "done"}
      BY <1>2, RequestsApart DEF Disconnect, IInv, RowKept
    <2>1. CASE row = NoRow
      <3>1. req' = [req EXCEPT ![d] = Done] /\ promised' = None /\ loop' = loop
        BY <1>2, <2>1 DEF Disconnect
      <3>2. TypeOK' /\ StoredIsSafe' /\ PromisesKept' /\ LabelsExplained'
        BY <2>0, <2>1, <3>1, <1>1, DoneIsRequest
           DEF IInv, TypeOK, StoredIsSafe, PromisesKept, LabelsExplained, NoRow
      <3>3. Verified' /\ Asked' /\ RowFound'
        BY <2>0, <3>1, <1>1, DoneIsRequest DEF IInv, TypeOK, Verified, Asked, RowFound
      <3>4. RowKept' /\ LockHeld'
        BY <2>0, <3>1, <1>1, DoneIsRequest DEF IInv, TypeOK, RowKept, LockHeld, Requests
      <3> QED BY <3>2, <3>3, <3>4 DEF IInv
    <2>2. CASE row # NoRow
      <3> DEFINE q == [req[d] EXCEPT !.pc = "flush", !.base = row]
      <3>1. /\ req' = [req EXCEPT ![d] = q] /\ q \in Request
            /\ q.pc = "flush" /\ q.base = row
            /\ promised' = promised /\ loop' = d
        BY <1>1, <1>2, <2>2 DEF Disconnect, Request
      <3> HIDE DEF q
      <3>2. TypeOK' /\ StoredIsSafe' /\ PromisesKept' /\ LabelsExplained'
        BY <2>0, <3>1, <1>1
           DEF IInv, TypeOK, StoredIsSafe, PromisesKept, LabelsExplained
      <3>3. Verified' /\ Asked' /\ RowFound'
        BY <2>0, <3>1, <1>1 DEF IInv, TypeOK, Verified, Asked, RowFound
      <3>4. RowKept'
        BY <2>0, <3>1, <1>1 DEF IInv, TypeOK, RowKept, Requests
      <3>5. LockHeld'
        BY <2>0, <3>1, <1>1 DEF IInv, TypeOK, LockHeld
      <3> QED BY <3>2, <3>3, <3>4, <3>5 DEF IInv
    <2> QED BY <2>1, <2>2
  <1>3. CASE Remove(d)
    <2> DEFINE q == [req[d] EXCEPT !.pc = "commit"]
    <2>1. /\ req' = [req EXCEPT ![d] = q] /\ q \in Request
          /\ q.pc = "commit" /\ q.base = req[d].base
          /\ req[d].pc = "flush" /\ lock = None /\ lock' = d
          /\ UNCHANGED <<row, loop, inserts, promised, restarts>>
      BY <1>1, <1>3 DEF Remove, Goto, Request
    <2> HIDE DEF q
    <2>2. TypeOK' /\ StoredIsSafe' /\ PromisesKept' /\ LabelsExplained'
      BY <2>1, <1>1 DEF IInv, TypeOK, StoredIsSafe, PromisesKept, LabelsExplained
    <2>3. Verified' /\ Asked' /\ RowFound'
      BY <2>1, <1>1 DEF IInv, TypeOK, Verified, Asked, RowFound
    <2>4. RowKept'
      BY <2>1, <1>1 DEF IInv, TypeOK, RowKept, Requests
    <2>5. LockHeld'
      <3>1. \A r \in Requests : req[r].pc # "commit"
        BY <2>1, RequestsApart DEF IInv, LockHeld, Requests
      <3> QED BY <3>1, <2>1, <1>1 DEF LockHeld
    <2> QED BY <2>2, <2>3, <2>4, <2>5 DEF IInv
  <1>4. CASE CommitRemoval(d)
    <2>1. /\ req[d].pc = "commit" /\ promised' = None /\ lock' = None
          /\ loop' = None /\ req' = [req EXCEPT ![d] = Done]
          /\ UNCHANGED <<inserts, restarts>>
          /\ row' = IF row.id = req[d].base.id THEN NoRow ELSE row
      BY <1>4 DEF CommitRemoval
    <2>2. row.id = req[d].base.id /\ lock = d /\ loop = d
      BY <2>1, <1>1 DEF IInv, RowKept, LockHeld
    <2>3. row' = NoRow
      BY <2>1, <2>2
    <2>4. TypeOK' /\ StoredIsSafe' /\ PromisesKept' /\ LabelsExplained'
      BY <2>1, <2>3, <1>1, DoneIsRequest
         DEF IInv, TypeOK, StoredIsSafe, PromisesKept, LabelsExplained, NoRow
    <2>5. \A r \in Requests : r # d => req[r].pc # "commit"
      BY <2>2 DEF IInv, LockHeld
    <2>6. Verified' /\ Asked'
      BY <2>1, <1>1 DEF IInv, TypeOK, Verified, Asked
    <2>7. RowFound' /\ LockHeld'
      BY <2>1, <2>5, <1>1, DoneIsRequest DEF IInv, TypeOK, RowFound, LockHeld, Requests
    <2>8. RowKept'
      <3>1. \A e \in Deletes : e # d => req[e].pc \in {"new", "done"}
        BY <2>2 DEF IInv, RowKept
      <3> QED BY <3>1, <2>1, <1>1, DoneIsRequest DEF RowKept, Requests
    <2> QED BY <2>4, <2>6, <2>7, <2>8 DEF IInv
  <1> QED BY <1>2, <1>3, <1>4 DEF Disconnecting

\* A restart ends every request under way.
LEMMA RestartKeeps == ASSUME MaxRestarts \in Nat, IInv, Restart PROVE IInv'
  <1>1. /\ req' = [r \in Requests |-> IF req[r].pc = "new" THEN New ELSE Done]
        /\ lock' = None /\ loop' = None
        /\ restarts' = restarts + 1 /\ restarts < MaxRestarts
        /\ UNCHANGED <<row, inserts, promised>>
    BY DEF Restart
  <1>2. \A r \in Requests : req'[r].pc \in {"new", "done"}
    BY <1>1 DEF New, Done
  <1>3. TypeOK'
    BY <1>1, DoneIsRequest DEF IInv, TypeOK
  <1>4. StoredIsSafe' /\ PromisesKept' /\ LabelsExplained'
    BY <1>1 DEF IInv, StoredIsSafe, PromisesKept, LabelsExplained
  <1>5. Verified' /\ Asked' /\ RowKept' /\ RowFound' /\ LockHeld'
    BY <1>2 DEF Verified, Asked, RowKept, RowFound, LockHeld, Requests
  <1> QED BY <1>3, <1>4, <1>5 DEF IInv

\* Every step keeps the invariant.
LEMMA StepKeeps ==
    ASSUME MaxRestarts \in Nat, IInv, [Next]_vars PROVE IInv'
  <1>1. CASE UNCHANGED vars
    BY <1>1 DEF vars, IInv, TypeOK, StoredIsSafe, PromisesKept, LabelsExplained,
                Verified, Asked, RowKept, RowFound, LockHeld
  <1> QED BY <1>1, PutKeeps, DeleteKeeps, RestartKeeps DEF Next

\* The invariant holds in every reachable state.
LEMMA Invariance == ASSUME MaxRestarts \in Nat PROVE Spec => []IInv
  <1>1. Init => IInv
    BY InitHolds
  <1>2. IInv /\ [Next]_vars => IInv'
    BY StepKeeps
  <1> QED BY <1>1, <1>2, PTL DEF Spec

----------------------------------------------------------------------------
\* The state of connecting and disconnecting is well typed.
THEOREM CredentialTypes == ASSUME MaxRestarts \in Nat PROVE Spec => []TypeOK
  <1>1. IInv => TypeOK
    BY DEF IInv
  <1> QED BY <1>1, Invariance, PTL

\* No key that may withdraw, or whose answer does not say, is ever stored.
THEOREM StoredKeysAreSafe ==
    ASSUME MaxRestarts \in Nat PROVE Spec => []StoredIsSafe
  <1>1. IInv => StoredIsSafe
    BY DEF IInv
  <1> QED BY <1>1, Invariance, PTL

\* What the user was last told about the connection is what is stored.
THEOREM AnswersAreTrue ==
    ASSUME MaxRestarts \in Nat PROVE Spec => []PromisesKept
  <1>1. IInv => PromisesKept
    BY DEF IInv
  <1> QED BY <1>1, Invariance, PTL

\* A label of another key than the stored one comes from an overlap only.
THEOREM LabelsFollowKeys ==
    ASSUME MaxRestarts \in Nat PROVE Spec => []LabelsExplained
  <1>1. IInv => LabelsExplained
    BY DEF IInv
  <1> QED BY <1>1, Invariance, PTL

=============================================================================
