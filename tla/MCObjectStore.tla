---------------------------- MODULE MCObjectStore ----------------------------
(* Small instances of ObjectStore for TLC. *)
EXTENDS ObjectStore, TLC

CONSTANTS j1, j2, h1, h2, h3, c1, c2, a1, v1, v2

\* h1 and h2 run in the same job, h3 in another.
MCJobOf == [h \in Handlers |-> IF h = h3 THEN j2 ELSE j1]

\* v1 refers to every object, v2 to one of them.
MCClosure == [v \in Results |-> IF v = v1 THEN CAS ELSE {c1}]

\* The handlers of the first job are interchangeable.
HandlerSymmetry == Permutations({h1, h2})
=============================================================================
