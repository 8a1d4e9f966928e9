---------------------------- MODULE MCEnvironments ----------------------------
(* Instances of Environments for TLC. *)
EXTENDS Environments, TLC

CONSTANTS x, y, v, home, away

AllNone == [n \in Names |-> None]
AllStored == [n \in Names |-> [broker |-> None, vhosts |-> {v}]]
Alike == Permutations(Replicas) \cup Permutations(Clients)
AddX == [name |-> x, broker |-> None, vhosts |-> {v}]
AddXAway == [name |-> x, broker |-> away, vhosts |-> {v}]
AddY == [name |-> y, broker |-> None, vhosts |-> {v}]
OnlyX == {AddX}
OnlyXAway == {AddXAway}
XAndY == {AddX, AddY}
===============================================================================
