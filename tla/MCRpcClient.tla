---------------------------- MODULE MCRpcClient ----------------------------
(***************************************************************************)
(* RpcClient for TLC.                                                      *)
(***************************************************************************)
EXTENDS RpcClient

CONSTANTS c1, c2
=============================================================================
