-------------------------- MODULE MCTunnelManager --------------------------
(***************************************************************************)
(* TunnelManager for TLC.                                                  *)
(***************************************************************************)
EXTENDS TunnelManager, TLC

CONSTANTS a, b, t1, t2, t3, r1, r2

(* Pointers and contexts are interchangeable. *)
Symmetry == Permutations(Ref) \cup Permutations(Run)
=============================================================================
