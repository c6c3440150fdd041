------------------------------ MODULE MCLifecycle ------------------------------
(* Small instances of Lifecycle for TLC: units of ten seconds, a backend    *)
(* timeout of 60 seconds.                                                   *)
EXTENDS Lifecycle
=============================================================================
