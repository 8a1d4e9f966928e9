------------------------------ MODULE MCBrowsing ------------------------------
(* Instances of Browsing for TLC. *)
EXTENDS Browsing, TLC

Alike == Permutations(Clients) \cup Permutations(Prints)
MinusOneAndZero == {-1, 0}
===============================================================================
