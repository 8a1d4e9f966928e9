------------------------------- MODULE MCBulkRuns -------------------------------
(* Instances of BulkRuns for TLC. *)
EXTENDS BulkRuns, TLC

CONSTANTS c1, c2, r1, r2, f, g, s1, s2

TwoReplicas == (c1 :> r1) @@ (c2 :> r2)
(* Every queue holds the same messages: a fingerprint says nothing of its scope. *)
OneOfEach == [s \in Scopes |-> [fp \in Fps |-> 1]]
Symmetry == Permutations({f, g}) \cup Permutations({s1, s2})
===============================================================================
