------------------------------ MODULE MCDial ------------------------------
(***************************************************************************)
(* ConfigLoad and Dial for TLC.                                            *)
(***************************************************************************)
EXTENDS Dial

CONSTANTS x, y

(* Every host of up to four tokens, in files of one tunnel, *)
AnyHost == UNION {[1 .. n -> {x, At, Colon}] : n \in 0 .. 4}

OneTunnel == {<<[Name |-> n, Host |-> h]>> : n \in {<<>>, <<x>>}, h \in AnyHost}

(* and names that meet each other, in files of up to four. *)
SmallTunnel ==
  {[Name |-> n, Host |-> h] :
     n \in {<<>>, <<x>>, <<x, 2>>}, h \in {<<x>>, <<y, At, x>>}}

ManyTunnels == UNION {[1 .. n -> SmallTunnel] : n \in 0 .. 4}

MCFiles == OneTunnel \cup ManyTunnels

(* Once a tunnel was looked up, the rest of the configuration is not read  *)
(* and does not change any more.                                           *)
DialView == IF dialPC = "idle" THEN <<loadVars, dialVars>> ELSE <<dialVars>>

MCIdentityFiles == {<<>>, <<"id1">>, <<"id1", "id2">>}
=============================================================================
