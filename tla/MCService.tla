------------------------------ MODULE MCService -----------------------------
(***************************************************************************)
(* Service for TLC.                                                        *)
(***************************************************************************)
EXTENDS Service

CONSTANTS p1, p2
=============================================================================
