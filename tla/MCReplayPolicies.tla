---------------------------- MODULE MCReplayPolicies ----------------------------
(* Instances of ReplayPolicies for TLC. *)
EXTENDS ReplayPolicies, TLC

CONSTANTS m1, m2, s, q1, r1, r2

OneQueue == [m \in Messages |-> q1]
===============================================================================
