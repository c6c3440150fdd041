------------------------------ MODULE MCPackLoad ------------------------------
(* Small instances of PackLoad for TLC. *)
EXTENDS PackLoad, TLC

CONSTANTS r1, r2, r3, p1, p2
=============================================================================
