----------------------------- MODULE MCRequests -----------------------------
(* Requests on small instances. *)
EXTENDS Requests, TLC

CONSTANTS a, b, t1, t2, t3, r1, r2, c1, c2

(* No name contains a phrase the handlers look for. *)
PlainNames == [n \in Names |-> {}]

(* Every name contains them all. *)
SpeakingNames == [n \in Names |-> Phrase]

(* No action and no property here reads what subscribers were told. *)
WithoutNotified == <<tunnels, mt, run, removals, req, answer>>

Symmetry == Permutations(Ref) \cup Permutations(Run) \cup Permutations(Client)
=============================================================================
