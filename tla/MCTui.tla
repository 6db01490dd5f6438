-------------------------------- MODULE MCTui --------------------------------
(***************************************************************************)
(* Tui for TLC.                                                            *)
(***************************************************************************)
EXTENDS Tui

CONSTANTS a, b, k1, k2
=============================================================================
