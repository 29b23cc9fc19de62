--------------------------- MODULE MCBotLifecycle ---------------------------
(***************************************************************************)
(* BotLifecycle for TLC: which operations each slot asks for, with which   *)
(* idempotency keys.  The second slot only resumes and pauses, its pauses  *)
(* under a key of their own: two different pauses, or two requests with    *)
(* the key of a resume, are in progress together.                          *)
(***************************************************************************)
EXTENDS BotLifecycle, TLC

First == CHOOSE q \in Slots : TRUE
Id == CHOOSE i \in Ids : TRUE

MCTwoPauses ==
    [q \in Slots |->
        [op \in Ops |->
            CASE q = First     -> {Id}
              [] op = "resume" -> {Id}
              [] op = "pause"  -> Ids \ {Id}
              [] OTHER         -> {}]]

=============================================================================
