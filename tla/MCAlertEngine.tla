----------------------------- MODULE MCAlertEngine -----------------------------
(* Instances of AlertEngine for TLC. *)
EXTENDS AlertEngine, TLC

CONSTANTS p1, p2, r1, r2
===============================================================================
