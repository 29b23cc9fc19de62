-------------------------- MODULE MCOrderExecution --------------------------
(***************************************************************************)
(* OrderExecution for TLC.  Requests, readers and bodies are interchange-  *)
(* able: no definition of the specification names one of them.             *)
(***************************************************************************)
EXTENDS OrderExecution, TLC

Symmetry ==
    Permutations(Requests) \cup Permutations(Readers) \cup Permutations(Bodies)

=============================================================================
