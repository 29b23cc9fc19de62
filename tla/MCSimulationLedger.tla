------------------------- MODULE MCSimulationLedger -------------------------
(***************************************************************************)
(* SimulationLedger for TLC.                                               *)
(***************************************************************************)
EXTENDS SimulationLedger

=============================================================================
