---------------------------- MODULE MCPublication ----------------------------
(* Small instances of Publication for TLC. *)
EXTENDS Publication, TLC

CONSTANTS h1, h2, h3, d1, k1

\* All handlers publish the same key.
MCKeyOf == [h \in Handlers |-> k1]
=============================================================================
