------------------------------ MODULE MCDaemon ------------------------------
(***************************************************************************)
(* Daemon for TLC.                                                         *)
(***************************************************************************)
EXTENDS Daemon, TLC

CONSTANTS c1, c2, g1

Symmetry == Permutations(Conn)
=============================================================================
