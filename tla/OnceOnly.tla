------------------------------ MODULE OnceOnly ------------------------------
(***************************************************************************)
(* What an idempotency key promises a client of the trading API, with no   *)
(* word of how it is kept: under one key at most one order is taken by     *)
(* Binance; once an answer is recorded for the key it never changes and no *)
(* order is taken any more; whoever is answered under that key receives    *)
(* the recorded answer; and an answer that reports an execution follows    *)
(* one.                                                                    *)
(***************************************************************************)
EXTENDS Naturals

CONSTANTS
    Keys,         \* idempotency keys
    OrderKeys,    \* those of them under which an order can be placed
    Clients,      \* requests waiting for an answer
    AnswerSet,    \* everything that can be answered
    Executed,     \* those of them that report an order taken by Binance
    Nothing       \* no answer yet, not one of AnswerSet

VARIABLES
    taken,        \* orders Binance has taken under each order key
    answer,       \* the answer recorded for each key
    reply         \* what each client has received

once == <<taken, answer, reply>>

OnceInit ==
    /\ taken = [k \in OrderKeys |-> 0]
    /\ answer = [k \in Keys |-> Nothing]
    /\ reply = [c \in Clients |-> Nothing]

Take(k) ==
    /\ taken[k] = 0 /\ answer[k] = Nothing
    /\ taken' = [taken EXCEPT ![k] = 1]
    /\ UNCHANGED <<answer, reply>>

\* The first answer is recorded; its client receives it, or an error instead.
Record(k, c, a) ==
    /\ answer[k] = Nothing /\ reply[c] = Nothing
    /\ k \in OrderKeys /\ a \in Executed => taken[k] = 1
    /\ answer' = [answer EXCEPT ![k] = a]
    /\ reply' \in {reply, [reply EXCEPT ![c] = a]}
    /\ UNCHANGED taken

Repeat(k, c) ==
    /\ answer[k] # Nothing /\ reply[c] = Nothing
    /\ reply' = [reply EXCEPT ![c] = answer[k]]
    /\ UNCHANGED <<taken, answer>>

OnceNext ==
    \/ \E k \in OrderKeys : Take(k)
    \/ \E k \in Keys, c \in Clients :
          Repeat(k, c) \/ \E a \in AnswerSet : Record(k, c, a)

OnceSpec == OnceInit /\ [][OnceNext]_once

=============================================================================
