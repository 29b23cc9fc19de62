------------------------------ MODULE MCSignIn ------------------------------
(***************************************************************************)
(* SignIn for TLC.                                                         *)
(***************************************************************************)
EXTENDS SignIn, TLC

Symmetry == Permutations(Requests) \cup Permutations(States)
            \cup Permutations(Users)

=============================================================================
