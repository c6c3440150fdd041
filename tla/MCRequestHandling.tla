-------------------------- MODULE MCRequestHandling --------------------------
(* Small instances of RequestHandling for TLC: three requests that meet at  *)
(* the same two keys, under every configuration.                            *)
EXTENDS RequestHandling, TLC

CONSTANTS q1, q2, q3

AllConfigs == [packs : BOOLEAN, writeEnabled : BOOLEAN, failOpen : BOOLEAN]

RequestSymmetry == Permutations(Requests)
=============================================================================
