-------------------------- MODULE TunnelLifecycle --------------------------
(***************************************************************************)
(* What the Manager of internal/tunnel promises its callers about a single *)
(* tunnel name, whatever goroutines it uses to keep the promise:           *)
(*                                                                         *)
(*   - a tunnel is started only while it is inactive and becomes connected *)
(*     only from connecting;                                               *)
(*   - an active tunnel ends in "error" at any time, and in "disconnected" *)
(*     only after somebody asked for the end;                              *)
(*   - only an inactive tunnel is removed, a configured one never.         *)
(***************************************************************************)
EXTENDS Naturals

CONSTANTS Names, ConfigNames, GeneratedNames

VARIABLES
  state,    \* per name: absent, or the status callers see
  stopping  \* the names of active tunnels that were asked to end

lifecycleVars == <<state, stopping>>

Active(n) == state[n] \in {"connecting", "connected"}

Init ==
  /\ state = [n \in Names |-> IF n \in ConfigNames THEN "disconnected"
                              ELSE "absent"]
  /\ stopping = {}

Add(n) ==
  /\ n \in GeneratedNames
  /\ state[n] = "absent"
  /\ state' = [state EXCEPT ![n] = "disconnected"]
  /\ UNCHANGED stopping

Remove(n) ==
  /\ n \notin ConfigNames
  /\ state[n] \in {"disconnected", "error"}
  /\ state' = [state EXCEPT ![n] = "absent"]
  /\ UNCHANGED stopping

Begin(n) ==
  /\ state[n] \in {"disconnected", "error"}
  /\ state' = [state EXCEPT ![n] = "connecting"]
  /\ UNCHANGED stopping

Promote(n) ==
  /\ state[n] = "connecting"
  /\ state' = [state EXCEPT ![n] = "connected"]
  /\ UNCHANGED stopping

AskToStop(S) ==
  /\ \A n \in S : Active(n)
  /\ stopping' = stopping \cup S
  /\ UNCHANGED state

Fail(n) ==
  /\ Active(n)
  /\ state' = [state EXCEPT ![n] = "error"]
  /\ stopping' = stopping \ {n}

End(n) ==
  /\ n \in stopping
  /\ state' = [state EXCEPT ![n] = "disconnected"]
  /\ stopping' = stopping \ {n}

Next ==
  \/ \E n \in Names : Add(n) \/ Remove(n) \/ Begin(n) \/ Promote(n)
                      \/ Fail(n) \/ End(n)
  \/ \E S \in SUBSET Names : AskToStop(S)

Spec == Init /\ [][Next]_lifecycleVars
=============================================================================
