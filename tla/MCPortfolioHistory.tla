------------------------- MODULE MCPortfolioHistory -------------------------
(***************************************************************************)
(* PortfolioHistory for TLC: a short window at the resolution of the        *)
(* snapshots, and a long one thinned out to every other of them.            *)
(***************************************************************************)
EXTENDS PortfolioHistory, TLC

MCWindows == [day |-> [span |-> 3, minutes |-> 0], week |-> [span |-> 6, minutes |-> 4]]

MCSymmetry == Permutations(Assets)

=============================================================================
