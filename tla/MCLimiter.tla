------------------------------ MODULE MCLimiter ------------------------------
(* Small instances of Limiter for TLC.  The rate is one below the limit,   *)
(* like the highest setting, 199 of 200: a minute of 10 units and 4 uploads *)
(* in it give an interval of 2 units, so a minute has room for 5 slots.     *)
EXTENDS Limiter, TLC

CONSTANTS c1, c2, c3

CallerSymmetry == Permutations(Callers)
=============================================================================
