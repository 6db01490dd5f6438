-------------------------- MODULE MCConnectCommand --------------------------
(***************************************************************************)
(* ConnectCommand for TLC.                                                 *)
(***************************************************************************)
EXTENDS ConnectCommand
=============================================================================
