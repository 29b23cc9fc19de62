---------------------------- MODULE MCRiskGate ----------------------------
(***************************************************************************)
(* RiskGate for TLC.                                                       *)
(***************************************************************************)
EXTENDS RiskGate, TLC

\* Tight limits, looser ones, and a row with one limit left out.
Tight == [notional |-> 64, symbolPct |-> 50, totalPct |-> 75, lossPct |-> 2,
          positions |-> 1, symbols |-> Symbols]
Loose == [Tight EXCEPT !.notional = 1000, !.lossPct = 100, !.positions = 2]
Unfinished == [Loose EXCEPT !.totalPct = None]

SavedLimits == {Tight, Loose, Unfinished}

Symmetry == Permutations(Symbols)

=============================================================================
