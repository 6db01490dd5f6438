--------------------------- MODULE TunnelPromise ---------------------------
(***************************************************************************)
(* What tunnel.Start promises the Manager: it opens or fails to open, a    *)
(* tunnel that is open never fails, and it is closed only on demand.  The  *)
(* runner of module TunnelManager (Open, OpenFails, Close) relies on this. *)
(***************************************************************************)
VARIABLES phase, asked

promiseVars == <<phase, asked>>

Init == phase = "opening" /\ asked = FALSE

Ask == ~asked /\ asked' = TRUE /\ UNCHANGED phase

Open == phase = "opening" /\ phase' = "serving" /\ UNCHANGED asked

OpenFails == phase = "opening" /\ phase' = "failed" /\ UNCHANGED asked

Close == phase = "serving" /\ asked /\ phase' = "closed" /\ UNCHANGED asked

Next == Ask \/ Open \/ OpenFails \/ Close

Spec == Init /\ [][Next]_promiseVars
=============================================================================
