--------------------------- MODULE MCMessageOperator ---------------------------
(* Instances of MessageOperator for TLC. *)
EXTENDS MessageOperator, TLC

CONSTANTS c1, c2, r1, r2, a, b

(* Message i has the i-th fingerprint. *)
FpDistinct == [m \in Msgs |-> IF m = 1 THEN a ELSE b]
FpDuplicate == [m \in Msgs |-> IF m \in {1, 3} THEN a ELSE b]

OneReplica == [c \in Clients |-> r1]
TwoReplicas == (c1 :> r1) @@ (c2 :> r2)

Scan == [kind |-> "scan", action |-> "none", fps |-> {}]
Single(action, f) == [kind |-> "single", action |-> action, fps |-> {f}]
Bulk(action, fps) == [kind |-> "bulk", action |-> action, fps |-> fps]

(* park differs from move only in how its target is declared. *)
FewJobs ==
    {Scan} \cup {Single(action, a) : action \in {"copy", "move", "delete"}}
           \cup {Bulk(action, {a, b}) : action \in {"copy", "park", "delete"}}
LiveJobs == {Bulk("park", {a})}
(* A copy, or a message that is unroutable in a batch, changes the order of a quorum queue. *)
KeepOrder ==
    {Scan, Single("move", a), Single("move", b), Single("delete", b)}
        \cup {Bulk("move", {a, b}), Bulk("delete", {a, b})}
MoveMany == {Bulk("move", {a, b})}

Symmetry == Permutations(Clients)
===============================================================================
