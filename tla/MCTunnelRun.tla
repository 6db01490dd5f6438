---------------------------- MODULE MCTunnelRun ----------------------------
(***************************************************************************)
(* TunnelRun for TLC.                                                      *)
(***************************************************************************)
EXTENDS TunnelRun

CONSTANTS c1, c2, c3
=============================================================================
